---- MODULE Spec2Model ----
(***************************************************************************)
(* State-machine model of the redaction server (package redact_mcp):       *)
(*   - SlidingWindowRateLimiter           (rate_limiter.py)                *)
(*   - the middleware chain and handlers  (middleware.py, main.py)         *)
(*   - RedactorEngine at token granularity (redactor.py)                   *)
(*   - InMemoryMappingStore.save          (storage.py)                     *)
(*                                                                         *)
(* Time is the value of time.monotonic(), counted in whole seconds.        *)
(*                                                                         *)
(* Scheduling.  The server is single-threaded asyncio: a coroutine runs    *)
(* until an await that really suspends.  "async with self._lock" on a free *)
(* asyncio.Lock does not suspend, and neither critical section of the      *)
(* limiter or of the in-memory store contains an await, so the lock is     *)
(* free at every suspension point and each check()/save() runs as one      *)
(* step, the clock read before the lock included.  Every hop between two   *)
(* BaseHTTPMiddleware stages is a task switch, so each stage is a step.    *)
(***************************************************************************)
EXTENDS Integers, Sequences, FiniteSets, TLC

\* ------------------------------------------------------------------ bounds
NumRequests == 1
MaxTime == 5
MaxRequestTime == 1
MaxChecks == 5
MaxOtherChecks == 2
MaxStoreTime == 3
MaxTasks == 2
MaxCallers == 2
MaxHeader == 3
MaxSegments == 2
MaxEngines == 2
MaxCalls == 2

\* --------------------------------------------- settings (config.AppSettings)
max_payload_bytes == 3
rate_limit_requests == 2
rate_limit_window_seconds == 2
request_timeout_seconds == 1
mapping_ttl_seconds == 2
cleanup_interval_seconds == 2

\* Python's None: for a string-valued and for a number-valued attribute.
None == "None"
NoNumber == 0 - 1

Reqs == 1..NumRequests

Max(a, b) == IF a >= b THEN a ELSE b

\* ------------------------------------------------------------- request data
\* Originals the three patterns match, and one token that matches nothing.
Identifiers == {"A", "B"}
Replacements == {"X", "Y"}
Oversize == [i \in 1..(max_payload_bytes + 1) |-> "w"]
Texts == { <<>>, <<"A", "w", "A">>, Oversize }

\* JSON request bodies.  well_formed = FALSE: json.loads raises JSONDecodeError.
\* has_text = FALSE: the document has no "text" field.  mode = None: no "mode".
NoJson == [well_formed |-> FALSE, has_text |-> FALSE, text |-> <<>>, mode |-> None]
JsonDocs ==
    { NoJson,
      [well_formed |-> TRUE, has_text |-> FALSE, text |-> <<>>, mode |-> None],
      [well_formed |-> TRUE, has_text |-> TRUE, text |-> <<>>, mode |-> None],
      [well_formed |-> TRUE, has_text |-> TRUE, text |-> <<"A">>, mode |-> "bogus"],
      [well_formed |-> TRUE, has_text |-> TRUE, text |-> <<"A", "B">>,
       mode |-> "deterministic"] }

Bodies ==
    { [content_type |-> "text/plain", text |-> t, parsed |-> NoJson] : t \in Texts }
    \cup
    { [content_type |-> "application/json", text |-> <<>>, parsed |-> j] : j \in JsonDocs }

EmptyBody == [content_type |-> "text/plain", text |-> <<>>, parsed |-> NoJson]
NoBody == [content_type |-> None, text |-> <<>>, parsed |-> NoJson]

\* len(body): one byte per token; a JSON document costs its text plus one.
\* Both bodies with two originals are exactly max_payload_bytes long.
BodyLen(b) ==
    IF b.content_type = "text/plain" THEN Len(b.text)
    ELSE Len(b.parsed.text) + 1

\* Header values.  NoNumber: no Content-Length; <<>>: no X-Forwarded-For.
ContentLengths == {NoNumber, max_payload_bytes, max_payload_bytes + 1}
\* The value of a header is a sequence of tokens: an address, a comma or a
\* blank.  << >> is the header left out, or sent empty: both are falsy.
HeaderTokens == {"k1", ",", " "}

\* "".join(tokens): the string the tokens spell.
RECURSIVE str(_)
str(tokens) == IF tokens = << >> THEN "" ELSE Head(tokens) \o str(Tail(tokens))

\* forwarded.split(",")[0]: what stands before the first comma.
split_first(forwarded) ==
    LET commas == { i \in 1..Len(forwarded) : forwarded[i] = "," }
    IN  IF commas = {} THEN forwarded
        ELSE SubSeq(forwarded, 1, (CHOOSE i \in commas : \A j \in commas : i <= j) - 1)

\* str.strip(): the blanks at both ends are dropped.
strip(tokens) ==
    LET solid == { i \in 1..Len(tokens) : tokens[i] # " " }
    IN  IF solid = {} THEN << >>
        ELSE SubSeq(tokens, CHOOSE i \in solid : \A j \in solid : i <= j,
                            CHOOSE i \in solid : \A j \in solid : i >= j)

_client_identifier_unstripped(forwarded, client) ==
    IF forwarded # << >> THEN str(split_first(forwarded))
    ELSE IF client # None THEN client
    ELSE "unknown"

\* _client_identifier(request), of the X-Forwarded-For header and of
\* request.client.host (None: no request.client)
_client_identifier(forwarded, client) ==
    IF forwarded # << >> THEN str(strip(split_first(forwarded)))
    ELSE IF client # None THEN client
    ELSE "unknown"

Peers ==
    { [forwarded |-> <<"k1", ",", " ", "k2">>, client |-> "k2"],
      [forwarded |-> << >>, client |-> None] }
Keys == {"k1", "unknown"}

\* Every header of up to MaxHeader tokens, with and without a peer address.
Headers == UNION { [1..n -> HeaderTokens] : n \in 0..MaxHeader }
ClientPeers == { [forwarded |-> h, client |-> c] : h \in Headers, c \in {None, "k2"} }
ClientKeys ==
    Keys \cup { _client_identifier(peer.forwarded, peer.client) : peer \in ClientPeers }
Paths == {"/redact", "/health"}

VARIABLES
    now,          \* time.monotonic()
    entries,      \* SlidingWindowRateLimiter._entries: key -> deque of timestamps
    admitted,     \* history: per key, every timestamp check() admitted since reset()
    last_check,   \* history: the last check() call and what it returned
    checks,       \* history: number of check() calls made
    store,        \* InMemoryMappingStore._store: mapping_id -> (dict, expire_at)
    uuids,        \* number of uuid.uuid4() values drawn so far
    req,          \* per request: position in the chain, request.state, response
    objs,         \* the dict objects alive: address -> items
    held,         \* the store's caller: the dict it holds and how it came by it
    ttl_seconds,  \* the store's ttl_seconds (NoNumber: None)
    backend,      \* "memory": InMemoryMappingStore, "redis": RedisMappingStore
    _cleanup_task,\* InMemoryMappingStore._cleanup_task (0: None)
    tasks,        \* the asyncio tasks running _cleanup_loop, in order of creation
    shutting,     \* shutdown() calls suspended in "await self._cleanup_task"
    redis,        \* the keys of the Redis server: mapping_id -> (payload, expiry)
    app,          \* app.state and the position of lifespan()
    saves,        \* history: per mapping_id, the last save not deleted since
    last,         \* history: the store operation of the latest step, its result
    engines,      \* the RedactorEngine instances constructed, in order
    redaction,    \* history: the latest call on RedactorEngine and its result
    _lock,        \* InMemoryMappingStore._lock: the coroutine inside it (0: free)
    callers       \* per coroutine calling the store: its call and where it is

store_env == <<held, ttl_seconds, backend, _cleanup_task, tasks, shutting, redis,
               saves, last>>

engine_env == <<engines, redaction>>

lock_env == <<_lock, callers>>

vars == <<now, entries, admitted, last_check, checks, store, uuids, req, objs,
          store_env, app, engine_env, lock_env>>

\* ------------------------------------------------ SlidingWindowRateLimiter
RECURSIVE _drain(_, _)
RECURSIVE _drain_keeps_boundary(_, _)
_drain_keeps_boundary(queue, t) ==
    LET boundary == t - rate_limit_window_seconds
    IN  IF queue # <<>> /\ queue[1] < boundary
        THEN _drain_keeps_boundary(Tail(queue), t)
        ELSE queue

\* _drain: pop from the left while the head is at or before the boundary.
_drain(queue, t) ==
    LET boundary == t - rate_limit_window_seconds
    IN  IF queue # <<>> /\ queue[1] <= boundary
        THEN _drain(Tail(queue), t)
        ELSE queue

check_off_by_one(key, t) ==
    LET queue == _drain(IF key \in DOMAIN entries THEN entries[key] ELSE <<>>, t)
    IN  IF Len(queue) > rate_limit_requests
        THEN [allowed |-> FALSE,
              retry_after |-> Max(rate_limit_window_seconds - (t - queue[1]), 0),
              queue |-> queue]
        ELSE [allowed |-> TRUE, retry_after |-> NoNumber, queue |-> Append(queue, t)]

\* check() that records the time of a denied call too.
check_counts_denied(key, t) ==
    LET queue == _drain(IF key \in DOMAIN entries THEN entries[key] ELSE <<>>, t)
    IN  IF Len(queue) >= rate_limit_requests
        THEN [allowed |-> FALSE,
              retry_after |-> Max(rate_limit_window_seconds - (t - queue[1]), 0),
              queue |-> Append(queue, t)]
        ELSE [allowed |-> TRUE, retry_after |-> NoNumber, queue |-> Append(queue, t)]

check_shared_window(key, t) ==
    LET queue == _drain(IF key \in DOMAIN entries THEN entries[key] ELSE <<>>, t)
        others == { k \in DOMAIN entries \ {key} : _drain(entries[k], t) # <<>> }
    IN  IF Len(queue) >= rate_limit_requests \/ others # {}
        THEN [allowed |-> FALSE,
              retry_after |-> IF queue = <<>> THEN rate_limit_window_seconds
                              ELSE Max(rate_limit_window_seconds - (t - queue[1]), 0),
              queue |-> queue]
        ELSE [allowed |-> TRUE, retry_after |-> NoNumber, queue |-> Append(queue, t)]

check_appendleft(key, t) ==
    LET queue == _drain(IF key \in DOMAIN entries THEN entries[key] ELSE <<>>, t)
    IN  IF Len(queue) >= rate_limit_requests
        THEN [allowed |-> FALSE,
              retry_after |-> Max(rate_limit_window_seconds - (t - queue[1]), 0),
              queue |-> queue]
        ELSE [allowed |-> TRUE, retry_after |-> NoNumber, queue |-> <<t>> \o queue]

\* check(key) with now = t: (allowed, retry_after) and the key's deque afterwards.
\* The clock is read before the lock is taken, but the lock is held only by
\* bodies that never suspend, so it is free whenever a call reaches it: the
\* call runs from the clock's reading to its return as one step.
check(key, t) ==
    LET queue == _drain(IF key \in DOMAIN entries THEN entries[key] ELSE <<>>, t)
    IN  IF Len(queue) >= rate_limit_requests
        THEN [allowed |-> FALSE,
              retry_after |-> Max(rate_limit_window_seconds - (t - queue[1]), 0),
              queue |-> queue]
        ELSE [allowed |-> TRUE, retry_after |-> NoNumber, queue |-> Append(queue, t)]

\* History of admissions: the timestamps of `admitted[key]` inside (t - window, t].
InWindow(key, t) ==
    { i \in 1..Len(admitted[key]) :
        /\ admitted[key][i] > t - rate_limit_window_seconds
        /\ admitted[key][i] <= t }

OldestInWindow(key, t) ==
    CHOOSE m \in { admitted[key][i] : i \in InWindow(key, t) } :
        \A i \in InWindow(key, t) : m <= admitted[key][i]

NoCheck ==
    [key |-> None, at |-> 0, allowed |-> FALSE, retry_after |-> NoNumber,
     before |-> 0, oldest |-> NoNumber]

\* The state change of one "await limiter.check(key)".
DoCheck(key) ==
    LET res == check(key, now)
    IN  /\ entries' = [k \in DOMAIN entries \cup {key} |->
                          IF k = key THEN res.queue ELSE entries[k]]
        /\ admitted' = IF res.allowed
                         THEN [admitted EXCEPT ![key] = Append(@, now)]
                         ELSE admitted
        /\ last_check' = [key |-> key, at |-> now, allowed |-> res.allowed,
                           retry_after |-> res.retry_after,
                           before |-> Cardinality(InWindow(key, now)),
                           oldest |-> IF InWindow(key, now) = {} THEN NoNumber
                                      ELSE OldestInWindow(key, now)]
        /\ checks' = checks + 1

\* A direct call of check(), as the unit tests of the limiter make.
LimiterCheck(key) ==
    /\ checks < MaxChecks
    /\ DoCheck(key)
    /\ UNCHANGED <<app, engine_env, lock_env, store_env, objs, now, store, uuids, req>>

\* The rate-limit stage serving a request of another client.
OtherRequest(key) ==
    /\ checks < MaxOtherChecks
    /\ DoCheck(key)
    /\ UNCHANGED <<app, engine_env, lock_env, store_env, objs, now, store, uuids, req>>

\* reset(): what the call does to the limiter: every key is cleared.
reset ==
    /\ entries' = << >>
    /\ admitted' = [k \in ClientKeys |-> <<>>]

\* A direct call of reset().
LimiterReset ==
    /\ entries # << >>
    /\ reset
    /\ UNCHANGED <<app, engine_env, lock_env, store_env, objs, now, last_check, checks, store, uuids, req>>

\* time.monotonic() advances.
Tick ==
    /\ now < MaxTime
    /\ now' = now + 1
    /\ UNCHANGED <<app, engine_env, lock_env, store_env, objs, entries, admitted, last_check, checks, store, uuids, req>>

\* time.monotonic() advances while requests are served.
RequestTick ==
    /\ now < MaxRequestTime
    /\ now' = now + 1
    /\ UNCHANGED <<app, engine_env, lock_env, store_env, objs, entries, admitted, last_check, checks, store, uuids, req>>

\* ---------------------------------------------------- InMemoryMappingStore
\* The store is an asyncio object: no critical section holds an await, so
\* save, get, delete, count and _evict_expired each run as one step.  Its
\* lifecycle hooks are called by one owner, one call after the other.
MappingIds == {1, 2}
Dicts == { << >>, ("A" :> "X") }
NoDict == 0
NoHeld == [ref |-> NoDict, id |-> 0, from |-> None]

\* The address a new object gets: the lowest one not in use.
NewAddress(heap) ==
    CHOOSE a \in 1..(Cardinality(DOMAIN heap) + 1) :
        /\ a \notin DOMAIN heap
        /\ \A b \in 1..(a - 1) : b \in DOMAIN heap

dict_same_object(heap, a) == [ref |-> a, heap |-> heap]

\* dict(mapping): a new dict object with the items of the one at address a.
dict(heap, a) ==
    LET new == NewAddress(heap)
    IN  [ref |-> new, heap |-> heap @@ (new :> heap[a])]

\* Reference counting: the objects neither the table nor the caller refers to
\* are gone.
Collect(heap, table, holder) ==
    [a \in { b \in DOMAIN heap :
               \/ b = holder.ref
               \/ \E id \in DOMAIN table : table[id].mapping = b } |-> heap[a]]

Without(f, x) == [y \in DOMAIN f \ {x} |-> f[y]]

expire_at_kept(table, mapping_id) ==
    IF mapping_id \in DOMAIN table
    THEN table[mapping_id].expire_at
    ELSE IF ttl_seconds # NoNumber THEN now + ttl_seconds ELSE NoNumber

\* save: the expiry instant of the entry written at time.monotonic() = now.
expire_at_of_save(table, mapping_id) ==
    IF ttl_seconds # NoNumber THEN now + ttl_seconds ELSE NoNumber

\* InMemoryMappingStore.save(mapping_id, mapping), mapping the dict at address a.
save(heap, table, mapping_id, a) ==
    LET copy == dict(heap, a)
    IN  [objs  |-> copy.heap,
         store |-> [id \in DOMAIN table \cup {mapping_id} |->
                      IF id = mapping_id
                      THEN [mapping |-> copy.ref,
                            expire_at |-> expire_at_of_save(table, mapping_id)]
                      ELSE table[id]]]

ExpiredAtInstant(expire_at) == expire_at # NoNumber /\ expire_at <= now

\* get: "expire_at is not None and expire_at < time.monotonic()"
Expired(expire_at) == expire_at # NoNumber /\ expire_at < now

\* get() that answers None for an expired entry and leaves it in the table.
get_keeps_expired(heap, table, mapping_id) ==
    IF mapping_id \notin DOMAIN table
    THEN [result |-> NoDict, objs |-> heap, store |-> table]
    ELSE IF Expired(table[mapping_id].expire_at)
    THEN [result |-> NoDict, objs |-> heap, store |-> table]
    ELSE LET copy == dict(heap, table[mapping_id].mapping)
         IN  [result |-> copy.ref, objs |-> copy.heap, store |-> table]

\* InMemoryMappingStore.get(mapping_id): result is the address of the dict
\* returned, NoDict for None.
get(heap, table, mapping_id) ==
    IF mapping_id \notin DOMAIN table
    THEN [result |-> NoDict, objs |-> heap, store |-> table]
    ELSE IF Expired(table[mapping_id].expire_at)
    THEN [result |-> NoDict, objs |-> heap, store |-> Without(table, mapping_id)]
    ELSE LET copy == dict(heap, table[mapping_id].mapping)
         IN  [result |-> copy.ref, objs |-> copy.heap, store |-> table]

\* InMemoryMappingStore.delete(mapping_id)
delete(table, mapping_id) ==
    [result |-> mapping_id \in DOMAIN table, store |-> Without(table, mapping_id)]

\* InMemoryMappingStore.count()
count(table) ==
    Cardinality({ id \in DOMAIN table :
                    \/ table[id].expire_at = NoNumber
                    \/ table[id].expire_at > now })

EvictableAtInstant(expire_at) == expire_at # NoNumber /\ expire_at <= now

\* _evict_expired: "expire_at is not None and expire_at < now"
Evictable(expire_at) == expire_at # NoNumber /\ expire_at < now

\* InMemoryMappingStore._evict_expired(): the table it leaves.
_evict_expired(table) ==
    IF ttl_seconds = NoNumber THEN table
    ELSE [id \in { i \in DOMAIN table : ~Evictable(table[i].expire_at) } |-> table[id]]

\* History records.
NoLast ==
    [op |-> None, id |-> 0, found |-> FALSE, mapping |-> << >>,
     number |-> NoNumber, removed |-> {}, detail |-> None]

Did(op, id) == [NoLast EXCEPT !.op = op, !.id = id]

Saved(id, mapping) ==
    [id2 \in DOMAIN saves \cup {id} |->
        IF id2 = id
        THEN [mapping |-> mapping, at |-> now]
        ELSE saves[id2]]

\* A caller makes a dict with items d, saves it under id and keeps the dict,
\* letting go of the one it held.
StoreSave(id, d) ==
    /\ backend = "memory"
    /\ LET a    == NewAddress(objs)
           res  == save(objs @@ (a :> d), store, id, a)
           mine == [ref |-> a, id |-> id, from |-> "save"]
       IN  /\ store' = res.store
           /\ held' = mine
           /\ objs' = Collect(res.objs, res.store, mine)
    /\ saves' = Saved(id, d)
    /\ last' = [Did("save", id) EXCEPT !.found = id \in DOMAIN saves, !.mapping = d]
    /\ UNCHANGED <<app, engine_env, lock_env, now, entries, admitted, last_check, checks, uuids, req,
                   ttl_seconds, backend, _cleanup_task, tasks, shutting, redis>>

\* A caller calls get(id) and keeps the dict it is given.
StoreGet(id) ==
    /\ backend = "memory"
    /\ LET res  == get(objs, store, id)
           mine == IF res.result = NoDict THEN held
                   ELSE [ref |-> res.result, id |-> id, from |-> "get"]
       IN  /\ store' = res.store
           /\ held' = mine
           /\ objs' = Collect(res.objs, res.store, mine)
           /\ last' = [Did("get", id) EXCEPT
                          !.found = res.result # NoDict,
                          !.mapping = IF res.result = NoDict THEN << >>
                                      ELSE res.objs[res.result]]
    /\ UNCHANGED <<app, engine_env, lock_env, now, entries, admitted, last_check, checks, uuids, req,
                   ttl_seconds, backend, _cleanup_task, tasks, shutting, redis, saves>>

StoreDelete(id) ==
    /\ backend = "memory"
    /\ LET res == delete(store, id)
       IN  /\ store' = res.store
           /\ objs' = Collect(objs, res.store, held)
           /\ last' = [Did("delete", id) EXCEPT !.found = res.result]
    /\ saves' = Without(saves, id)
    /\ UNCHANGED <<app, engine_env, lock_env, now, entries, admitted, last_check, checks, uuids, req,
                   held, ttl_seconds, backend, _cleanup_task, tasks, shutting, redis>>

StoreCount ==
    /\ backend = "memory"
    /\ last' = [Did("count", 0) EXCEPT !.number = count(store)]
    /\ UNCHANGED <<app, engine_env, lock_env, now, entries, admitted, last_check, checks, store, uuids, req,
                   objs, held, ttl_seconds, backend, _cleanup_task, tasks, shutting,
                   redis, saves>>

\* The caller changes the items of the dict it holds: one it passed to save or
\* one it was given by get.
CallerMutate(d) ==
    /\ held # NoHeld
    /\ objs[held.ref] # d
    /\ objs' = [objs EXCEPT ![held.ref] = d]
    /\ last' = [Did("mutate", held.id) EXCEPT !.mapping = d]
    /\ UNCHANGED <<app, engine_env, lock_env, now, entries, admitted, last_check, checks, store, uuids, req,
                   held, ttl_seconds, backend, _cleanup_task, tasks, shutting, redis,
                   saves>>

\* _evict_expired() run by the cleanup loop, whenever that may be.
EvictExpired ==
    /\ backend = "memory"
    /\ store' = _evict_expired(store)
    /\ objs' = Collect(objs, _evict_expired(store), held)
    /\ last' = [Did("sweep", 0) EXCEPT
                   !.removed = { [id |-> id, expire_at |-> store[id].expire_at] :
                                   id \in DOMAIN store \ DOMAIN _evict_expired(store) }]
    /\ UNCHANGED <<app, engine_env, lock_env, now, entries, admitted, last_check, checks, uuids, req,
                   held, ttl_seconds, backend, _cleanup_task, tasks, shutting, redis,
                   saves>>

creates_task_ignoring_ttl == _cleanup_task = 0

creates_task_ignoring_existing == ttl_seconds # NoNumber

\* startup: "self._cleanup_task is None and self.ttl_seconds is not None"
creates_task == _cleanup_task = 0 /\ ttl_seconds # NoNumber

\* InMemoryMappingStore.startup(): what the call does to the store.
startup ==
    /\ IF creates_task
       THEN /\ Len(tasks) < MaxTasks
            /\ tasks' = Append(tasks, [state |-> "sleeping",
                                       wake_at |-> now + cleanup_interval_seconds])
            /\ _cleanup_task' = Len(tasks) + 1
       ELSE UNCHANGED <<tasks, _cleanup_task>>
    /\ UNCHANGED <<shutting, store, objs, saves>>

\* The owner of a store calls startup().
StoreStartup ==
    /\ backend = "memory"
    /\ shutting = 0
    /\ startup
    /\ last' = Did("startup", 0)
    /\ UNCHANGED <<app, engine_env, lock_env, now, entries, admitted, last_check, checks, uuids, req,
                   held, ttl_seconds, backend, redis>>

\* _cleanup_loop: asyncio.sleep(interval) is over and _evict_expired() runs,
\* then the loop sleeps again.
Sweep(t) ==
    /\ t \in 1..Len(tasks)
    /\ tasks[t].state = "sleeping"
    /\ now >= tasks[t].wake_at
    /\ store' = _evict_expired(store)
    /\ objs' = Collect(objs, _evict_expired(store), held)
    /\ tasks' = [tasks EXCEPT ![t].wake_at = now + cleanup_interval_seconds]
    /\ last' = [Did("sweep", 0) EXCEPT
                   !.removed = { [id |-> id, expire_at |-> store[id].expire_at] :
                                   id \in DOMAIN store \ DOMAIN _evict_expired(store) }]
    /\ UNCHANGED <<app, engine_env, lock_env, now, entries, admitted, last_check, checks, uuids, req,
                   held, ttl_seconds, backend, _cleanup_task, shutting, redis, saves>>

\* Task.cancel(): CancelledError is thrown into the task at its sleep.
cancel(task) ==
    IF task.state = "done" THEN task ELSE [task EXCEPT !.state = "cancelled"]

\* InMemoryMappingStore.shutdown(), up to "await self._cleanup_task": what the
\* call does to the store.  Without a task it runs through and the table is
\* cleared.
shutdown ==
    /\ IF _cleanup_task # 0
       THEN /\ tasks' = [tasks EXCEPT ![_cleanup_task] = cancel(@)]
            /\ shutting' = _cleanup_task
            /\ UNCHANGED <<store, objs, saves>>
       ELSE /\ store' = << >>
            /\ objs' = Collect(objs, << >>, held)
            /\ saves' = << >>
            /\ UNCHANGED <<tasks, shutting>>
    /\ UNCHANGED _cleanup_task

\* InMemoryMappingStore.shutdown(), from the end of the awaited task on.
shutdown_resumed ==
    /\ shutting # 0
    /\ tasks[shutting].state = "done"
    /\ _cleanup_task' = 0
    /\ shutting' = 0
    /\ store' = << >>
    /\ objs' = Collect(objs, << >>, held)
    /\ saves' = << >>
    /\ UNCHANGED tasks

\* The owner of a store calls shutdown().
StoreShutdown ==
    /\ backend = "memory"
    /\ shutting = 0
    /\ shutdown
    /\ last' = IF _cleanup_task # 0 THEN NoLast ELSE Did("shutdown", 0)
    /\ UNCHANGED <<app, engine_env, lock_env, now, entries, admitted, last_check, checks, uuids, req,
                   held, ttl_seconds, backend, redis>>

\* _cleanup_loop: "except asyncio.CancelledError: return".
TaskEnds(t) ==
    /\ t \in 1..Len(tasks)
    /\ tasks[t].state = "cancelled"
    /\ tasks' = [tasks EXCEPT ![t].state = "done"]
    /\ last' = NoLast
    /\ UNCHANGED <<app, engine_env, lock_env, now, entries, admitted, last_check, checks, store, uuids, req,
                   objs, held, ttl_seconds, backend, _cleanup_task, shutting, redis,
                   saves>>

\* The owner's shutdown() call returns.
StoreShutdownEnd ==
    /\ shutdown_resumed
    /\ last' = Did("shutdown", 0)
    /\ UNCHANGED <<app, engine_env, lock_env, now, entries, admitted, last_check, checks, uuids, req,
                   held, ttl_seconds, backend, redis>>

\* time.monotonic() advances between two operations on the store.
StoreTick ==
    /\ now < MaxStoreTime
    /\ now' = now + 1
    /\ last' = NoLast
    /\ UNCHANGED <<app, engine_env, lock_env, entries, admitted, last_check, checks, store, uuids, req,
                   objs, held, ttl_seconds, backend, _cleanup_task, tasks, shutting,
                   redis, saves>>

\* ------------------------------------- InMemoryMappingStore: the lock, in steps
\* The operations of the in-memory store statement by statement, called by
\* coroutines that may be switched at every statement.  The event loop
\* switches at fewer places (only at an await that suspends), so every run of
\* the loop is one of these runs.
Callers == 1..MaxCallers

NoEntry == [mapping |-> NoDict, expire_at |-> NoNumber]

IdleCaller ==
    [op |-> None, pc |-> "idle", id |-> 0, mapping |-> << >>,
     expire_at |-> NoNumber, value |-> NoEntry, expired |-> {}, seen |-> << >>]

Operations == {"save", "get", "delete", "count", "sweep", "clear"}

acquire_ignores_lock(c) == c \in Callers

\* asyncio.Lock.acquire() as "async with self._lock" calls it: the coroutine
\* goes on when the lock is free and waits while it is not.
acquire(c) == _lock = 0

\* A coroutine calls an operation and runs up to its "async with self._lock".
\* save() has read the clock by then; _evict_expired() has returned when there
\* is no TTL, and is not entered here in that case.
Enter(c, op, id, d) ==
    /\ backend = "memory"
    /\ callers[c].pc = "idle"
    /\ (id # 0) = (op \in {"save", "get", "delete"})
    /\ op # "save" => d = << >>
    /\ op = "sweep" => ttl_seconds # NoNumber
    /\ callers' = [callers EXCEPT ![c] =
                      [IdleCaller EXCEPT
                          !.op = op, !.pc = "acquire", !.id = id, !.mapping = d,
                          !.expire_at = IF op = "save"
                                        THEN expire_at_of_save(store, id)
                                        ELSE NoNumber]]
    /\ last' = NoLast
    /\ UNCHANGED <<app, engine_env, now, entries, admitted, last_check, checks, store, uuids,
                   req, objs, held, ttl_seconds, backend, _cleanup_task, tasks, shutting,
                   redis, saves, _lock>>

\* "async with self._lock": the coroutine is inside.
Acquire(c) ==
    /\ callers[c].pc = "acquire"
    /\ acquire(c)
    /\ _lock' = c
    /\ callers' = [callers EXCEPT ![c].pc = "locked", ![c].seen = store]
    /\ last' = NoLast
    /\ UNCHANGED <<app, engine_env, now, entries, admitted, last_check, checks, store, uuids,
                   req, objs, held, ttl_seconds, backend, _cleanup_task, tasks, shutting,
                   redis, saves>>

\* The statement of caller c that comes next is one at pc of operation op.
At(c, op, pc) == callers[c].op = op /\ callers[c].pc = pc

\* save: "self._store[mapping_id] = (dict(mapping), expire_at)", with the
\* expire_at computed before the lock.
SaveWrite(c) ==
    /\ At(c, "save", "locked")
    /\ LET a     == NewAddress(objs)
           res   == save(objs @@ (a :> callers[c].mapping), store, callers[c].id, a)
           table == [res.store EXCEPT ![callers[c].id].expire_at = callers[c].expire_at]
       IN  /\ store' = table
           /\ objs' = Collect(res.objs, table, NoHeld)
    /\ callers' = [callers EXCEPT ![c].pc = "release"]
    /\ last' = [Did("save", callers[c].id) EXCEPT !.mapping = callers[c].mapping]
    /\ UNCHANGED <<app, engine_env, now, entries, admitted, last_check, checks, uuids, req,
                   held, ttl_seconds, backend, _cleanup_task, tasks, shutting, redis,
                   saves, _lock>>

\* get: "value = self._store.get(mapping_id)" and "if value is None: return None"
GetLookup(c) ==
    /\ At(c, "get", "locked")
    /\ LET value == IF callers[c].id \in DOMAIN store
                    THEN store[callers[c].id] ELSE NoEntry
       IN  /\ callers' = [callers EXCEPT
                             ![c].value = value,
                             ![c].pc = IF value = NoEntry THEN "release" ELSE "looked"]
           /\ last' = IF value = NoEntry THEN Did("get", callers[c].id) ELSE NoLast
    /\ UNCHANGED <<app, engine_env, now, entries, admitted, last_check, checks, store, uuids,
                   req, objs, held, ttl_seconds, backend, _cleanup_task, tasks, shutting,
                   redis, saves, _lock>>

\* get: "if expire_at is not None and expire_at < time.monotonic()" with its
\* pop and return None, or "return dict(mapping)".
GetReturn(c) ==
    /\ At(c, "get", "looked")
    /\ LET value == callers[c].value
           table == IF Expired(value.expire_at) THEN Without(store, callers[c].id)
                    ELSE store
       IN  /\ store' = table
           /\ objs' = Collect(objs, table, NoHeld)
           /\ last' = IF Expired(value.expire_at) THEN Did("get", callers[c].id)
                      ELSE [Did("get", callers[c].id) EXCEPT
                               !.found = TRUE,
                               !.mapping = IF value.mapping \in DOMAIN objs
                                           THEN objs[value.mapping] ELSE << >>]
    /\ callers' = [callers EXCEPT ![c].pc = "release"]
    /\ UNCHANGED <<app, engine_env, now, entries, admitted, last_check, checks, uuids, req,
                   held, ttl_seconds, backend, _cleanup_task, tasks, shutting, redis,
                   saves, _lock>>

\* delete: "return self._store.pop(mapping_id, None) is not None"
DeleteReturn(c) ==
    /\ At(c, "delete", "locked")
    /\ LET res == delete(store, callers[c].id)
       IN  /\ store' = res.store
           /\ objs' = Collect(objs, res.store, NoHeld)
           /\ last' = [Did("delete", callers[c].id) EXCEPT !.found = res.result]
    /\ callers' = [callers EXCEPT ![c].pc = "release"]
    /\ UNCHANGED <<app, engine_env, now, entries, admitted, last_check, checks, uuids, req,
                   held, ttl_seconds, backend, _cleanup_task, tasks, shutting, redis,
                   saves, _lock>>

\* count: the clock read and the sum.
CountReturn(c) ==
    /\ At(c, "count", "locked")
    /\ last' = [Did("count", 0) EXCEPT !.number = count(store)]
    /\ callers' = [callers EXCEPT ![c].pc = "release"]
    /\ UNCHANGED <<app, engine_env, now, entries, admitted, last_check, checks, store, uuids,
                   req, objs, held, ttl_seconds, backend, _cleanup_task, tasks, shutting,
                   redis, saves, _lock>>

\* _evict_expired: the clock read and the list "expired".
EvictCollect(c) ==
    /\ At(c, "sweep", "locked")
    /\ callers' = [callers EXCEPT
                      ![c].expired = { key \in DOMAIN store :
                                         Evictable(store[key].expire_at) },
                      ![c].pc = "collected"]
    /\ last' = NoLast
    /\ UNCHANGED <<app, engine_env, now, entries, admitted, last_check, checks, store, uuids,
                   req, objs, held, ttl_seconds, backend, _cleanup_task, tasks, shutting,
                   redis, saves, _lock>>

\* _evict_expired: "for key in expired: self._store.pop(key, None)"
EvictRemove(c) ==
    /\ At(c, "sweep", "collected")
    /\ LET table == [key \in DOMAIN store \ callers[c].expired |-> store[key]]
       IN  /\ store' = table
           /\ objs' = Collect(objs, table, NoHeld)
    /\ last' = [Did("sweep", 0) EXCEPT
                   !.removed = { [id |-> key, expire_at |-> store[key].expire_at] :
                                   key \in DOMAIN store \cap callers[c].expired }]
    /\ callers' = [callers EXCEPT ![c].pc = "release"]
    /\ UNCHANGED <<app, engine_env, now, entries, admitted, last_check, checks, uuids, req,
                   held, ttl_seconds, backend, _cleanup_task, tasks, shutting, redis,
                   saves, _lock>>

\* shutdown: "self._store.clear()"
ClearReturn(c) ==
    /\ At(c, "clear", "locked")
    /\ store' = << >>
    /\ objs' = Collect(objs, << >>, NoHeld)
    /\ last' = Did("shutdown", 0)
    /\ callers' = [callers EXCEPT ![c].pc = "release"]
    /\ UNCHANGED <<app, engine_env, now, entries, admitted, last_check, checks, uuids, req,
                   held, ttl_seconds, backend, _cleanup_task, tasks, shutting, redis,
                   saves, _lock>>

\* The end of "async with self._lock": Lock.release(), and the call returns.
Release(c) ==
    /\ callers[c].pc = "release"
    /\ _lock' = 0
    /\ callers' = [callers EXCEPT ![c] = IdleCaller]
    /\ last' = NoLast
    /\ UNCHANGED <<app, engine_env, now, entries, admitted, last_check, checks, store, uuids,
                   req, objs, held, ttl_seconds, backend, _cleanup_task, tasks, shutting,
                   redis, saves>>

\* time.monotonic() advances between two statements.
LockTick ==
    /\ now < MaxStoreTime
    /\ now' = now + 1
    /\ last' = NoLast
    /\ UNCHANGED <<app, engine_env, entries, admitted, last_check, checks, store, uuids, req,
                   objs, held, ttl_seconds, backend, _cleanup_task, tasks, shutting,
                   redis, saves, lock_env>>

\* ------------------------------------------------------- RedisMappingStore
\* Every call is one round trip to the server.  The server drops a key set
\* with ex=n once n seconds have gone by.
RECURSIVE dumps_from(_, _)
dumps_from(mapping, keys) ==
    IF keys = {} THEN << >>
    ELSE LET k == CHOOSE x \in keys : TRUE
         IN  << <<k, mapping[k]>> >> \o dumps_from(mapping, keys \ {k})

\* json.dumps(mapping): the items, one after the other.
dumps(mapping) == dumps_from(mapping, DOMAIN mapping)

\* json.loads(payload)
loads(payload) ==
    [k \in { payload[i][1] : i \in 1..Len(payload) } |->
        payload[CHOOSE i \in 1..Len(payload) : payload[i][1] = k][2] ]

\* RedisMappingStore.save: set(key, payload) or set(key, payload, ex=ttl_seconds)
set(keys, mapping_id, payload) ==
    [id \in DOMAIN keys \cup {mapping_id} |->
        IF id = mapping_id
        THEN [payload |-> payload,
              expire_at |-> IF ttl_seconds = NoNumber THEN NoNumber
                            ELSE now + ttl_seconds]
        ELSE keys[id]]

\* The keys the server still has at time now.
Unexpired(keys) ==
    [id \in { i \in DOMAIN keys :
                \/ keys[i].expire_at = NoNumber
                \/ keys[i].expire_at > now } |-> keys[id]]

RedisSave(id, d) ==
    /\ backend = "redis"
    /\ redis' = [redis EXCEPT !.keys = set(Unexpired(redis.keys), id, dumps(d))]
    /\ saves' = Saved(id, d)
    /\ last' = [Did("save", id) EXCEPT !.found = id \in DOMAIN saves, !.mapping = d]
    /\ UNCHANGED <<app, engine_env, lock_env, now, entries, admitted, last_check, checks, store, uuids, req,
                   objs, held, ttl_seconds, backend, _cleanup_task, tasks, shutting>>

RedisGet(id) ==
    /\ backend = "redis"
    /\ redis' = [redis EXCEPT !.keys = Unexpired(redis.keys)]
    /\ last' = [Did("get", id) EXCEPT
                   !.found = id \in DOMAIN Unexpired(redis.keys),
                   !.mapping = IF id \in DOMAIN Unexpired(redis.keys)
                               THEN loads(redis.keys[id].payload) ELSE << >>]
    /\ UNCHANGED <<app, engine_env, lock_env, now, entries, admitted, last_check, checks, store, uuids, req,
                   objs, held, ttl_seconds, backend, _cleanup_task, tasks, shutting,
                   saves>>

RedisDelete(id) ==
    /\ backend = "redis"
    /\ redis' = [redis EXCEPT !.keys = Without(Unexpired(redis.keys), id)]
    /\ saves' = Without(saves, id)
    /\ last' = [Did("delete", id) EXCEPT !.found = id \in DOMAIN Unexpired(redis.keys)]
    /\ UNCHANGED <<app, engine_env, lock_env, now, entries, admitted, last_check, checks, store, uuids, req,
                   objs, held, ttl_seconds, backend, _cleanup_task, tasks, shutting>>

\* RedisMappingStore.startup(): ping()
RedisStartup ==
    /\ backend = "redis"
    /\ last' = Did("startup", 0)
    /\ UNCHANGED <<app, engine_env, lock_env, now, entries, admitted, last_check, checks, store, uuids, req,
                   objs, held, ttl_seconds, backend, _cleanup_task, tasks, shutting,
                   redis, saves>>

\* RedisMappingStore.shutdown(): close()
RedisShutdown ==
    /\ backend = "redis"
    /\ redis.closed = 0
    /\ redis' = [redis EXCEPT !.closed = @ + 1]
    /\ last' = Did("shutdown", 0)
    /\ UNCHANGED <<app, engine_env, lock_env, now, entries, admitted, last_check, checks, store, uuids, req,
                   objs, held, ttl_seconds, backend, _cleanup_task, tasks, shutting,
                   saves>>

\* ------------------------------------------------------------ app.state
\* ready: "unset" before lifespan() assigns it.  steps: history, the steps of
\* the lifespan exit in the order they ran.
\* started: history, mapping_store.startup() has returned.  probe: the
\* position of a health_ready call.
NoApp ==
    [pc |-> "new", ready |-> "unset", settings |-> FALSE, mapping_store |-> FALSE,
     rate_limiter |-> FALSE, redis |-> FALSE, started |-> FALSE,
     probe |-> "idle", steps |-> << >>]

RunningApp ==
    [pc |-> "serving", ready |-> "true", settings |-> TRUE, mapping_store |-> TRUE,
     rate_limiter |-> TRUE, redis |-> FALSE, started |-> TRUE,
     probe |-> "idle", steps |-> << >>]

\* The Redis server and the client's connection to it.
NoRedis == [keys |-> << >>, closed |-> 0]

\* ------------------------------------------- regular expressions (module re)
\* A text is a sequence of characters.  A pattern is a tree of the nodes
\* below; match() is the backtracking search of module re: alternatives in
\* the order written, greedy repetition, the first success wins.
Digits == {"0", "1", "2", "3", "4", "5", "6", "7", "8", "9"}
HexDigits == Digits \cup {"a", "b", "c", "d", "e", "f", "A", "B", "C", "D", "E", "F"}
\* \w, within the characters the texts are made of.
WordChars == HexDigits \cup {"x", "_"}

\* Pattern nodes: one character of a set; a literal string; a greedy
\* repetition {min,max} of one character of a set, and of any pattern; a
\* concatenation; an alternation; (?<![chars]), (?![chars]) and \b.
Set(chars) == [op |-> "set", chars |-> chars]
Literal(s) == [op |-> "lit", s |-> s]
Run(chars, min, max) == [op |-> "run", chars |-> chars, min |-> min, max |-> max]
Rep(of, min, max) == [op |-> "rep", of |-> of, min |-> min, max |-> max]
Times(of, n) == Rep(of, n, n)
Cat(parts) == [op |-> "cat", parts |-> parts]
Alt(parts) == [op |-> "alt", parts |-> parts]
NotBehind(chars) == [op |-> "not_behind", chars |-> chars]
NotAhead(chars) == [op |-> "not_ahead", chars |-> chars]
WordBoundary == [op |-> "b"]

NoMatch == 0 - 1

IsWord(text, i) == i >= 1 /\ i <= Len(text) /\ text[i] \in WordChars

\* The number of characters of the set at position i of text and after it,
\* max at most.
RunLength(chars, text, i, max) ==
    CHOOSE n \in 0..max :
        /\ \A k \in 0..(n - 1) : i + k <= Len(text) /\ text[i + k] \in chars
        /\ n = max \/ i + n > Len(text) \/ text[i + n] \notin chars

\* The ends (index after the last character) of the matches of pattern r at
\* position i of text, in the order the backtracking search tries them:
\* alternatives as written, a repetition taking one more round before none.
RECURSIVE ends(_, _, _), each(_, _, _), chain(_, _, _, _, _), any(_, _, _, _, _)
ends(r, text, i) ==
    CASE r.op = "set" ->
           IF i <= Len(text) /\ text[i] \in r.chars THEN <<i + 1>> ELSE << >>
      [] r.op = "lit" ->
           IF /\ i + Len(r.s) - 1 <= Len(text)
              /\ SubSeq(text, i, i + Len(r.s) - 1) = r.s
           THEN <<i + Len(r.s)>> ELSE << >>
      [] r.op = "run" ->
           LET n == RunLength(r.chars, text, i, r.max)
           IN  IF n < r.min THEN << >>
               ELSE [k \in 1..(n - r.min + 1) |-> i + n - k + 1]
      [] r.op = "cat" -> chain(r.parts, 1, Len(r.parts), text, <<i>>)
      [] r.op = "alt" -> any(r.parts, 1, Len(r.parts), text, i)
      [] r.op = "rep" ->
           (IF r.max > 0
            THEN each(Rep(r.of, r.min - 1, r.max - 1), text, ends(r.of, text, i))
            ELSE << >>)
           \o (IF r.min <= 0 THEN <<i>> ELSE << >>)
      [] r.op = "not_behind" ->
           IF i > 1 /\ text[i - 1] \in r.chars THEN << >> ELSE <<i>>
      [] r.op = "not_ahead" ->
           IF i <= Len(text) /\ text[i] \in r.chars THEN << >> ELSE <<i>>
      [] r.op = "b" ->
           IF IsWord(text, i - 1) # IsWord(text, i) THEN <<i>> ELSE << >>

\* r matched at each of the positions of from, in their order.
each(r, text, from) ==
    IF Len(from) = 0 THEN << >>
    ELSE IF Len(from) = 1 THEN ends(r, text, from[1])
    ELSE ends(r, text, Head(from)) \o each(r, text, Tail(from))

\* The parts lo..hi of a concatenation, one after the other.
chain(parts, lo, hi, text, from) ==
    IF Len(from) = 0 THEN << >>
    ELSE IF lo = hi THEN each(parts[lo], text, from)
    ELSE LET mid == (lo + hi) \div 2
         IN  chain(parts, mid + 1, hi, text, chain(parts, lo, mid, text, from))

\* The parts lo..hi of an alternation, in the order written.
any(parts, lo, hi, text, i) ==
    IF lo = hi THEN ends(parts[lo], text, i)
    ELSE LET mid == (lo + hi) \div 2
         IN  any(parts, lo, mid, text, i) \o any(parts, mid + 1, hi, text, i)

\* pattern.match(text, i): the end of the first match found, or NoMatch.
match(pattern, text, i) ==
    LET found == ends(pattern, text, i)
    IN  IF Len(found) = 0 THEN NoMatch ELSE Head(found)

\* ------------------------------------------------------ redactor patterns
\* (?:25[0-5]|2[0-4]\d|1\d\d|[1-9]?\d)
Octet ==
    Alt(<< Cat(<<Literal(<<"2", "5">>), Set({"0", "1", "2", "3", "4", "5"})>>),
           Cat(<<Set({"2"}), Set({"0", "1", "2", "3", "4"}), Set(Digits)>>),
           Cat(<<Set({"1"}), Set(Digits), Set(Digits)>>),
           Cat(<<Run(Digits \ {"0"}, 0, 1), Set(Digits)>>) >>)

\* (?:octet\.){3}octet
DottedQuad == Cat(<<Times(Cat(<<Octet, Set({"."})>>), 3), Octet>>)

\* [0-9a-fA-F]{1,4}
Group == Run(HexDigits, 1, 4)
Colon == Set({":"})
\* (?:[0-9a-fA-F]{1,4}:){min,max}
Groups(min, max) == Rep(Cat(<<Group, Colon>>), min, max)
\* (?::[0-9a-fA-F]{1,4}){min,max}
ColonGroups(min, max) == Rep(Cat(<<Colon, Group>>), min, max)

IPV6_RE ==
    Cat(<< NotBehind(WordChars \cup {":"}),
           Alt(<< Cat(<<Literal(<<":", ":", "f", "f", "f", "f", ":">>), DottedQuad>>),
                  Cat(<<Groups(7, 7), Group>>),
                  Cat(<<Groups(1, 6), Colon, Group>>),
                  Cat(<<Groups(1, 5), ColonGroups(1, 2)>>),
                  Cat(<<Groups(1, 4), ColonGroups(1, 3)>>),
                  Cat(<<Groups(1, 3), ColonGroups(1, 4)>>),
                  Cat(<<Groups(1, 2), ColonGroups(1, 5)>>),
                  Cat(<<Group, Colon, ColonGroups(1, 6)>>),
                  Cat(<<Colon, ColonGroups(1, 7)>>),
                  Cat(<<Groups(1, 7), Colon>>),
                  Literal(<<":", ":">>) >>),
           NotAhead(WordChars \cup {":"}) >>)

IPV4_RE == Cat(<<WordBoundary, DottedQuad, WordBoundary>>)

MAC_RE ==
    Cat(<< WordBoundary,
           Times(Cat(<<Run(HexDigits, 2, 2), Set({":", "-"})>>), 5),
           Run(HexDigits, 2, 2),
           WordBoundary >>)

PATTERNS == << [pattern_type |-> "ipv6", pattern |-> IPV6_RE],
               [pattern_type |-> "ipv4", pattern |-> IPV4_RE],
               [pattern_type |-> "mac", pattern |-> MAC_RE] >>

\* ---------------------------------------------------------- bytes and text
\* The ASCII characters the texts are made of, in runs of consecutive codes.
Ascii ==
    << [code |-> 32, chars |-> <<" ">>],
       [code |-> 45, chars |-> <<"-", ".">>],
       [code |-> 48, chars |-> <<"0", "1", "2", "3", "4", "5", "6", "7", "8", "9", ":">>],
       [code |-> 65, chars |-> <<"A", "B", "C", "D", "E", "F">>],
       [code |-> 95, chars |-> <<"_">>],
       [code |-> 97, chars |-> <<"a", "b", "c", "d", "e", "f", "g", "h", "i", "j", "k", "l", "m",
                                 "n", "o", "p", "q", "r", "s", "t", "u", "v", "w", "x", "y", "z">> ] >>

\* ord(c)
ord(c) ==
    LET r == CHOOSE k \in 1..Len(Ascii) :
                 \E n \in 1..Len(Ascii[k].chars) : Ascii[k].chars[n] = c
        n == CHOOSE n \in 1..Len(Ascii[r].chars) : Ascii[r].chars[n] = c
    IN  Ascii[r].code + n - 1

\* str.encode("utf-8"), of ASCII text.
encode(text) == [i \in 1..Len(text) |-> ord(text[i])]

HexChars == <<"0", "1", "2", "3", "4", "5", "6", "7", "8", "9",
              "a", "b", "c", "d", "e", "f">>

\* f"{n}" of a byte.
Decimal(n) ==
    IF n < 10 THEN <<HexChars[n + 1]>>
    ELSE IF n < 100 THEN <<HexChars[(n \div 10) + 1], HexChars[(n % 10) + 1]>>
    ELSE <<HexChars[(n \div 100) + 1], HexChars[((n \div 10) % 10) + 1],
           HexChars[(n % 10) + 1]>>

\* f"{n:02x}" and f"{n:04x}"
Hex2(n) == <<HexChars[((n \div 16) % 16) + 1], HexChars[(n % 16) + 1]>>
Hex4(n) == Hex2(n \div 256) \o Hex2(n % 256)

\* sep.join(parts)
RECURSIVE join(_, _)
join(sep, parts) ==
    IF Len(parts) = 0 THEN << >>
    ELSE IF Len(parts) = 1 THEN parts[1]
    ELSE parts[1] \o sep \o join(sep, Tail(parts))

\* text[s..e) occurs in text: literal as a substring.
Occurs(literal, text) ==
    \E s \in 1..(Len(text) - Len(literal) + 1) :
        SubSeq(text, s, s + Len(literal) - 1) = literal

\* hashlib.sha256(data).digest(): the first DigestBytes bytes of a fixed
\* function of the data stand for the digest.
DigestBytes == 16

\* The bytes lo..hi of the data, weighted by position, summed modulo 256.
RECURSIVE mix(_, _, _, _)
mix(data, lo, hi, j) ==
    IF lo > hi THEN 0
    ELSE IF lo = hi THEN ((lo + j) * data[lo]) % 256
    ELSE LET mid == (lo + hi) \div 2
         IN  (mix(data, lo, mid, j) + mix(data, mid + 1, hi, j)) % 256

sha256(data) ==
    [j \in 1..DigestBytes |-> (mix(data, 1, Len(data), j) + 31 * j + Len(data)) % 256]

\* hmac.new(key, msg, sha256).digest()
hmac(key, msg) == sha256(<<54>> \o key \o <<92>> \o msg)

\* secrets.randbelow(n), the (k+1)-th call after those already made: the
\* random source is a stream of values, read round and round.
randbelow(random, k, n) ==
    random.stream[((random.drawn + k) % Len(random.stream)) + 1] % n

\* ---------------------------------------------------------- RedactorEngine
\* (character granularity: the engine as redactor.py defines it)
NoSecret == <<NoNumber>>
NoKey == <<NoNumber>>

RedactorEngine_init_unchecked(mode, deterministic_secret, deterministic_context, id) ==
    [raised |-> None,
     self |-> [mapping_id |-> id, mode |-> mode, _mapping |-> << >>,
               _deterministic_key |->
                   IF mode = "deterministic"
                   THEN sha256(deterministic_secret \o encode(deterministic_context))
                   ELSE NoKey]]

\* RedactorEngine.__init__, id being the value uuid.uuid4() returns.
RedactorEngine_init(mode, deterministic_secret, deterministic_context, id) ==
    IF mode = "deterministic" /\ deterministic_secret = NoSecret
    THEN [raised |-> "ValueError",
          self |-> [mapping_id |-> id, mode |-> mode, _mapping |-> << >>,
                    _deterministic_key |-> NoKey]]
    ELSE [raised |-> None,
          self |-> [mapping_id |-> id, mode |-> mode, _mapping |-> << >>,
                    _deterministic_key |->
                        IF mode = "deterministic"
                        THEN sha256(deterministic_secret \o encode(deterministic_context))
                        ELSE NoKey]]

_ipv4_from_bytes(data) ==
    join(<<".">>, [i \in 1..4 |-> Decimal(data[i])])

_ipv6_from_bytes(data) ==
    join(<<":">>, [i \in 1..8 |-> Hex4(data[2 * i - 1] * 256 + data[2 * i])])

_mac_from_bytes(data) ==
    join(<<":">>, [i \in 1..6 |-> Hex2(data[i])])

_random_ipv4(random) ==
    join(<<".">>, [i \in 1..4 |-> Decimal(randbelow(random, i - 1, 256))])

_random_ipv6(random) ==
    join(<<":">>, [i \in 1..8 |-> Hex4(randbelow(random, i - 1, 65536))])

_random_mac(random) ==
    join(<<":">>, [i \in 1..6 |-> Hex2(randbelow(random, i - 1, 256))])

\* The number of randbelow() calls _random_replacement makes.
Drawn(pattern_type) ==
    IF pattern_type = "ipv4" THEN 4 ELSE IF pattern_type = "ipv6" THEN 8 ELSE 6

RedactorEngine_random_replacement(pattern_type, random) ==
    IF pattern_type = "ipv4" THEN _random_ipv4(random)
    ELSE IF pattern_type = "ipv6" THEN _random_ipv6(random)
    ELSE _random_mac(random)

RedactorEngine_deterministic_replacement_by_id(self, original, pattern_type) ==
    LET digest == hmac(<<self.mapping_id>>, encode(original))
    IN  IF pattern_type = "ipv4" THEN _ipv4_from_bytes(digest)
        ELSE IF pattern_type = "ipv6" THEN _ipv6_from_bytes(digest)
        ELSE _mac_from_bytes(digest)

RedactorEngine_deterministic_replacement(self, original, pattern_type) ==
    LET digest == hmac(self._deterministic_key, encode(original))
    IN  IF pattern_type = "ipv4" THEN _ipv4_from_bytes(digest)
        ELSE IF pattern_type = "ipv6" THEN _ipv6_from_bytes(digest)
        ELSE _mac_from_bytes(digest)

\* What _replace does for an original that is not in self._mapping.
Replaced(self, original, pattern_type, random) ==
    [self |-> [self EXCEPT !._mapping = @ @@ (original :>
                  IF self.mode = "deterministic"
                  THEN RedactorEngine_deterministic_replacement(self, original,
                                                                pattern_type)
                  ELSE RedactorEngine_random_replacement(pattern_type, random))],
     random |-> IF self.mode = "deterministic" THEN random
                ELSE [random EXCEPT !.drawn = @ + Drawn(pattern_type)]]

RedactorEngine_replace_no_memo(self, original, pattern_type, random) ==
    Replaced([self EXCEPT !._mapping = Without(@, original)], original,
             pattern_type, random)

\* RedactorEngine._replace: the engine and the random source after the call;
\* the value returned is self._mapping[original].
RedactorEngine_replace(self, original, pattern_type, random) ==
    IF original \in DOMAIN self._mapping
    THEN [self |-> self, random |-> random]
    ELSE Replaced(self, original, pattern_type, random)

\* pattern.search(text, pos): the first position from pos on where the pattern
\* matches, with the end of the match, or NoMatch.
search(pattern, text, pos) ==
    LET hits == { p \in pos..Len(text) : match(pattern, text, p) # NoMatch }
    IN  IF hits = {} THEN <<NoMatch, NoMatch>>
        ELSE LET first == CHOOSE p \in hits : \A q \in hits : p <= q
             IN  <<first, match(pattern, text, first)>>

\* What sub() has produced after the match found: the text before the match
\* and the value of _replace(m.group(0), pt) are written to the output.
Substituted(entry, source, pos, done, found) ==
    LET original == SubSeq(source.text, found[1], found[2] - 1)
        replaced == RedactorEngine_replace(done.self, original, entry.pattern_type,
                                           done.random)
        replacement == replaced.self._mapping[original]
    IN  [text |-> done.text \o SubSeq(source.text, pos, found[1] - 1) \o replacement,
         emitted |-> done.emitted \o SubSeq(source.emitted, pos, found[1] - 1)
                       \o [i \in 1..Len(replacement) |-> TRUE],
         self |-> replaced.self,
         random |-> replaced.random,
         matches |-> Append(done.matches,
             [pattern_type |-> entry.pattern_type,
              original |-> original,
              replacement |-> replacement,
              of_emitted |-> \E i \in found[1]..(found[2] - 1) : source.emitted[i]])]

\* pattern.sub(lambda m: self._replace(m.group(0), pt), source.text), from
\* position pos of the text on.  done is what the scan has produced so far:
\* the output text, the engine, the random source, and the matches.  emitted
\* marks the characters that a replacement of this call has written.
RECURSIVE sub(_, _, _, _)
sub(entry, source, pos, done) ==
    LET found == search(entry.pattern, source.text, pos)
    IN  IF found[1] = NoMatch
        THEN [done EXCEPT
                !.text = @ \o SubSeq(source.text, pos, Len(source.text)),
                !.emitted = @ \o SubSeq(source.emitted, pos, Len(source.text))]
        ELSE CHOOSE result \in
                 { sub(entry, source, found[2], next) :
                       next \in {Substituted(entry, source, pos, done, found)} } : TRUE

\* The loop of redact() over the patterns, from the k-th on: each pass is
\* finished (next) before the following one starts.
RECURSIVE passes(_, _, _)
passes(patterns, k, done) ==
    IF k > Len(patterns) THEN done
    ELSE CHOOSE result \in
             { passes(patterns, k + 1, next) :
                   next \in { sub(patterns[k],
                                  [text |-> done.text, emitted |-> done.emitted], 1,
                                  [done EXCEPT !.text = << >>, !.emitted = << >>]) } } : TRUE

\* RedactorEngine.redact(text): the redacted text, the mapping returned (a copy
\* of self._mapping), the engine after the call and the matches of the call.
RedactorEngine_redact(self, text, stream) ==
    LET done == passes(PATTERNS, 1,
                       [text |-> text,
                        emitted |-> [i \in 1..Len(text) |-> FALSE],
                        self |-> self,
                        random |-> [stream |-> stream, drawn |-> 0],
                        matches |-> << >>])
    IN  [text |-> done.text, mapping |-> done.self._mapping, self |-> done.self,
         matches |-> done.matches]

\* ------------------------------------------------- RedactorEngine in use
\* The pieces the texts are made of, and the texts: up to MaxSegments pieces.
Segments ==
    { <<"1", ".", "1", ".", "1", ".", "1">>,
      <<".", "1", ".", "1", ".", "1">>,
      <<" ", "1", ".", "1", ".", "1", ".", "1">>,
      <<"a", "a", ":", "b", "b", ":", "c", "c", ":", "d", "d", ":", "e", "e", ":">>,
      <<"f", "f">>,
      <<"a", "a", ":", "b", "b", "-", "c", "c", ":", "d", "d", "-", "e", "e", ":", "f", "f">>,
      <<":", ":", "f", "f", "f", "f", ":", "1", "9", "2", ".", "1", "6", "8", ".", "1", ".", "1">>,
      <<" ">>,
      <<"x", "1", ".", "1", ".", "1", ".", "1">> }

RECURSIVE TextsOf(_)
TextsOf(n) ==
    IF n = 0 THEN { << >> }
    ELSE TextsOf(n - 1) \cup { t \o piece : t \in TextsOf(n - 1), piece \in Segments }

EngineTexts == TextsOf(MaxSegments)

\* The texts of the requests that share engines or a store.
FewTexts ==
    { <<"1", ".", "1", ".", "1", ".", "1">>,
      <<" ", "1", ".", "1", ".", "1", ".", "1">>,
      <<":", ":", "f", "f", "f", "f", ":", "1", "9", "2", ".", "1", "6", "8", ".", "1", ".", "1">> }

\* What secrets.randbelow returns, call after call.
Streams == { <<9, 9, 9, 1, 12, 7, 7, 7>>, <<12, 7, 7, 7, 9, 9, 9, 1>> }
NoStream == <<0>>

\* deterministic_secret (bytes) and deterministic_context.
DeterministicSecrets == { <<115>>, <<116>> }
Contexts == { <<"d">>, <<"e">> }

\* The arguments RedactorEngine is constructed with.
Constructions ==
    [mode : {"random"}, secret : {NoSecret, <<115>>}, context : {<<"d">>}]
    \cup
    [mode : {"deterministic"}, secret : DeterministicSecrets \cup {NoSecret},
     context : Contexts]

FewConstructions ==
    { c \in Constructions : c.secret = <<115>> \/ c.mode = "deterministic" }

NoRedaction ==
    [op |-> None, engine |-> 0, mode |-> None, secret |-> NoSecret, raised |-> None,
     first |-> FALSE, input |-> << >>, text |-> << >>, mapping |-> << >>,
     matches |-> << >>]

uuid4_repeated == Max(uuids, 1)

\* uuid.uuid4(): a value never returned before.
uuid4 == uuids + 1

\* RedactorEngine(mode, deterministic_secret, deterministic_context)
EngineInit(mode, secret, context) ==
    /\ uuids < MaxEngines
    /\ LET made == RedactorEngine_init(mode, secret, context, uuid4)
       IN  /\ engines' =
                IF made.raised # None THEN engines
                ELSE Append(engines,
                            [self |-> made.self, secret |-> secret, context |-> context,
                             calls |-> 0, input |-> << >>, stream |-> NoStream,
                             text |-> << >>, returned |-> << >>, saved |-> FALSE])
           /\ redaction' = [NoRedaction EXCEPT !.op = "init", !.mode = mode,
                                               !.secret = secret,
                                               !.raised = made.raised]
    /\ uuids' = uuids + 1
    /\ UNCHANGED <<app, lock_env, store_env, objs, now, entries, admitted, last_check, checks,
                   store, req>>

\* The redact() calls made so far, on all engines.
RECURSIVE Calls(_)
Calls(n) == IF n = 0 THEN 0 ELSE engines[n].calls + Calls(n - 1)

\* engine.redact(text), the random source returning stream.
EngineRedact(e, text, stream) ==
    /\ e \in 1..Len(engines)
    /\ Calls(Len(engines)) < MaxCalls
    /\ (engines[e].self.mode = "deterministic") = (stream = NoStream)
    /\ \E result \in {RedactorEngine_redact(engines[e].self, text, stream)} :
           /\ engines' = [engines EXCEPT ![e] =
                            [@ EXCEPT !.self = result.self,
                                      !.calls = @ + 1,
                                      !.input = text,
                                      !.stream = stream,
                                      !.text = result.text,
                                      !.returned = result.mapping,
                                      !.saved = FALSE]]
           /\ redaction' = [NoRedaction EXCEPT !.op = "redact", !.engine = e,
                                               !.mode = engines[e].self.mode,
                                               !.secret = engines[e].secret,
                                               !.first = (engines[e].calls = 0),
                                               !.input = text,
                                               !.text = result.text,
                                               !.mapping = result.mapping,
                                               !.matches = result.matches]
    /\ UNCHANGED <<app, lock_env, store_env, objs, now, entries, admitted, last_check, checks,
                   store, uuids, req>>

\* redact() of main.py: await store.save(engine.mapping_id, mapping), the
\* engine having returned mapping.
EngineSave(e) ==
    /\ e \in 1..Len(engines)
    /\ engines[e].calls > 0
    /\ ~engines[e].saved
    /\ LET a   == NewAddress(objs)
           res == save(objs @@ (a :> engines[e].returned), store,
                       engines[e].self.mapping_id, a)
       IN  /\ store' = res.store
           /\ objs' = Collect(res.objs, res.store, held)
    /\ engines' = [engines EXCEPT ![e].saved = TRUE]
    /\ redaction' = [NoRedaction EXCEPT !.op = "save", !.engine = e]
    /\ UNCHANGED <<app, lock_env, store_env, now, entries, admitted, last_check, checks, uuids,
                   req>>

\* ------------------------------------------------------- request pipeline
\* errors: the value of the body's "errors" key; <<>> when the body has no such key.
NoResponse ==
    [status_code |-> 0, detail |-> None, errors |-> <<>>, headers |-> {},
     retry_after |-> NoNumber, mapping_id |-> 0, mapping_count |-> 0]

NoEngine ==
    [mapping_id |-> 0, mode |-> None, result |-> [text |-> <<>>, mapping |-> << >>]]

\* A request before it arrives.  state_* are the attributes of request.state.
IdleRequest ==
    [pc |-> "idle",
     path |-> None, content_length |-> NoNumber, body |-> NoBody,
     forwarded |-> <<>>, client |-> None,
     state_request_id |-> 0, state_started_at |-> NoNumber, state_body |-> NoBody,
     deadline |-> NoNumber,
     allowed |-> None,          \* what limiter.check returned: "yes", "no"
     log_started_at |-> NoNumber,   \* started_at of the logging stage
     engine |-> NoEngine,       \* the handler's RedactorEngine and its result
     response |-> NoResponse,   \* the response an inner stage has returned
     exc |-> None,              \* the exception an inner stage has raised
     response_sent |-> FALSE,   \* the timeout stage has answered already
     sent |-> <<>>,             \* responses sent to the client
     trace |-> <<>>,            \* history: stages entered, in order
     records |-> <<>>,          \* history: outcome records of the logging stage
     on_timeout |-> 0,          \* history: calls of the on_timeout callback
     engines |-> 0,             \* history: RedactorEngine instances constructed
     body_reads |-> 0,          \* history: calls of request.body() that read the stream
     saved |-> <<>>,            \* history: mapping ids this request saved
     late |-> FALSE]            \* history: a stage ran after the 504 was sent

\* Nothing has been asked of the process yet.
InitRequests ==
    /\ now = 0
    /\ entries = << >>
    /\ admitted = [k \in ClientKeys |-> <<>>]
    /\ last_check = NoCheck
    /\ checks = 0
    /\ store = << >>
    /\ uuids = 0
    /\ req = [r \in Reqs |-> IdleRequest]
    /\ objs = << >>
    /\ held = NoHeld
    /\ shutting = 0
    /\ redis = NoRedis
    /\ saves = << >>
    /\ last = NoLast
    /\ _lock = 0
    /\ callers = [c \in Callers |-> IdleCaller]
    /\ engines = << >>
    /\ redaction = NoRedaction

\* The application once lifespan() has reached its yield, with the default
\* settings: the in-memory store with a TTL, its cleanup task asleep.
Init ==
    /\ InitRequests
    /\ backend = "memory"
    /\ ttl_seconds = mapping_ttl_seconds
    /\ _cleanup_task = 1
    /\ tasks = << [state |-> "sleeping", wake_at |-> cleanup_interval_seconds] >>
    /\ app = RunningApp

Json(status, detail) ==
    [NoResponse EXCEPT !.status_code = status, !.detail = detail]

\* A stage step of request r: the request's new record is `new`.
Advance(r, new) ==
    req' = [req EXCEPT ![r] =
              IF req[r].response_sent
              THEN [new EXCEPT !.late = TRUE]
              ELSE new]

Entered(r, stage) == [req[r] EXCEPT !.trace = Append(@, stage)]

settings_is_None_skipped == app.settings /\ ~app.settings

\* "settings = getattr(request.app.state, self._settings_attr, None)" and
\* "if settings is None", the stage having been constructed without a value
\* of its own.
settings_is_None == ~app.settings

limiter_is_None_skipped == app.rate_limiter /\ ~app.rate_limiter

\* "limiter = self._limiter or getattr(request.app.state, self._limiter_attr,
\* None)" and "if limiter is None"
limiter_is_None == ~app.rate_limiter

\* RequestTimeoutMiddleware.dispatch, up to "await call_next(request)": the
\* outermost stage, so the first to see an arriving request.  Without
\* settings it awaits call_next outside any asyncio.timeout() and try: no
\* deadline is set.
TimeoutDispatch(r) ==
    /\ req[r].pc = "idle"
    /\ \A q \in Reqs : q < r => req[q].pc # "idle"
    /\ \E path \in Paths :
          Advance(r, [Entered(r, "timeout") EXCEPT
                         !.pc = "payload",
                         !.path = path,
                         !.deadline = IF settings_is_None THEN NoNumber
                                      ELSE now + request_timeout_seconds])
    /\ UNCHANGED <<app, engine_env, lock_env, store_env, objs, now, entries, admitted, last_check, checks, store, uuids>>

TooLargeInclusive(n) == n >= max_payload_bytes

\* The size test of PayloadSizeMiddleware, on the declared and the measured length.
TooLarge(n) == n > max_payload_bytes

\* PayloadSizeMiddleware.dispatch, up to "await request.body()".  The stage is
\* the only reader of the Content-Length header, whose value is drawn here.
\* Without settings it returns "await call_next(request)" before it reads
\* the header or the body.
PayloadSizeDispatch(r) ==
    /\ req[r].pc = "payload"
    /\ \E content_length \in ContentLengths :
          /\ req[r].path = "/health" => content_length = NoNumber
          /\ settings_is_None => content_length = NoNumber
          /\ IF settings_is_None
             THEN Advance(r, [Entered(r, "payload") EXCEPT !.pc = "rate_limit"])
             ELSE IF content_length # NoNumber /\ TooLarge(content_length)
             THEN Advance(r, [Entered(r, "payload") EXCEPT
                                 !.pc = "up",
                                 !.content_length = content_length,
                                 !.response = Json(413, "Payload too large")])
             ELSE Advance(r, [Entered(r, "payload") EXCEPT
                                 !.pc = "payload_body",
                                 !.content_length = content_length])
    /\ UNCHANGED <<app, engine_env, lock_env, store_env, objs, now, entries, admitted, last_check, checks, store, uuids>>

\* PayloadSizeMiddleware.dispatch, from the body's arrival on.  The body is
\* whatever the client sent, whatever its Content-Length declared.
PayloadSizeBody(r) ==
    /\ req[r].pc = "payload_body"
    /\ ~req[r].response_sent
    /\ \E body \in Bodies :
          /\ req[r].path = "/health" => body = EmptyBody
          /\ IF TooLarge(BodyLen(body))
             THEN Advance(r, [req[r] EXCEPT
                                 !.pc = "up",
                                 !.body = body,
                                 !.body_reads = @ + 1,
                                 !.response = Json(413, "Payload too large")])
             ELSE Advance(r, [req[r] EXCEPT
                                 !.pc = "rate_limit",
                                 !.body = body,
                                 !.body_reads = @ + 1,
                                 !.state_body = body])
    /\ UNCHANGED <<app, engine_env, lock_env, store_env, objs, now, entries, admitted, last_check, checks, store, uuids>>

\* "await request.body()" once the timeout stage has answered: receive() reports
\* http.disconnect and request.body() raises ClientDisconnect.
ClientDisconnect(r) ==
    /\ req[r].pc = "payload_body"
    /\ req[r].response_sent
    /\ Advance(r, [req[r] EXCEPT !.pc = "up", !.exc = "ClientDisconnect"])
    /\ UNCHANGED <<app, engine_env, lock_env, store_env, objs, now, entries, admitted, last_check, checks, store, uuids>>

TooManyRequestsNoHint(retry_after) ==
    [Json(429, "Too many requests") EXCEPT !.retry_after = retry_after]

\* The 429 response of RateLimitMiddleware: Retry-After when retry_after is truthy.
TooManyRequests(retry_after) ==
    [Json(429, "Too many requests") EXCEPT
        !.retry_after = retry_after,
        !.headers = IF retry_after # NoNumber /\ retry_after # 0
                    THEN {"Retry-After"} ELSE {}]

\* RateLimitMiddleware.dispatch.  The stage is the only reader of the
\* X-Forwarded-For header and of the peer address, which are drawn here.
RateLimitDispatch(r, peers) ==
    /\ req[r].pc = "rate_limit"
    /\ ~limiter_is_None
    /\ \E peer \in peers :
       LET key == _client_identifier(peer.forwarded, peer.client)
           res == check(key, now)
       IN  /\ DoCheck(key)
           /\ IF ~res.allowed
              THEN Advance(r, [Entered(r, "rate_limit") EXCEPT
                                  !.pc = "up",
                                  !.forwarded = peer.forwarded,
                                  !.client = peer.client,
                                  !.allowed = "no",
                                  !.response = TooManyRequests(res.retry_after)])
              ELSE Advance(r, [Entered(r, "rate_limit") EXCEPT
                                  !.pc = "logging",
                                  !.forwarded = peer.forwarded,
                                  !.client = peer.client,
                                  !.allowed = "yes"])
    /\ UNCHANGED <<app, engine_env, lock_env, store_env, objs, now, store, uuids>>

\* RateLimitMiddleware.dispatch without a limiter: "return await
\* call_next(request)", nothing read of the request and nothing checked.
RateLimitPassThrough(r) ==
    /\ req[r].pc = "rate_limit"
    /\ limiter_is_None
    /\ Advance(r, [Entered(r, "rate_limit") EXCEPT !.pc = "logging"])
    /\ UNCHANGED <<app, engine_env, lock_env, store_env, objs, now, entries, admitted, last_check, checks, store, uuids>>

\* StructuredLoggingMiddleware.dispatch, up to "await call_next(request)".
LoggingDispatch(r) ==
    /\ req[r].pc = "logging"
    /\ Advance(r, [Entered(r, "logging") EXCEPT
                      !.pc = "context", !.log_started_at = now])
    /\ UNCHANGED <<app, engine_env, lock_env, store_env, objs, now, entries, admitted, last_check, checks, store, uuids>>

\* RequestContextMiddleware.dispatch, up to "await call_next(request)".
ContextDispatch(r) ==
    /\ req[r].pc = "context"
    /\ uuids' = uuids + 1
    /\ Advance(r, [Entered(r, "context") EXCEPT
                      !.pc = "handler",
                      !.state_request_id = uuids + 1,
                      !.state_started_at = now])
    /\ UNCHANGED <<app, engine_env, lock_env, store_env, objs, now, entries, admitted, last_check, checks, store>>

\* ---------------------------------------------------------- RedactorEngine
\* _deterministic_replacement: a fixed function of the original (the HMAC).
_deterministic_replacement(original) ==
    IF original = "A" THEN "X" ELSE "Y"

\* _replace: the memo, and a fresh replacement for an original not yet in it.
\* draws[i] is the i-th value the random source returns in this call.
_replace(original, mapping, mode, draws) ==
    IF original \in DOMAIN mapping THEN mapping
    ELSE mapping @@
         (original :> IF mode = "deterministic"
                      THEN _deterministic_replacement(original)
                      ELSE draws[Cardinality(DOMAIN mapping) + 1])

RECURSIVE redact_from(_, _, _, _)
redact_from(text, mapping, mode, draws) ==
    IF text = <<>> THEN [text |-> <<>>, mapping |-> mapping]
    ELSE IF Head(text) \notin Identifiers
    THEN LET rest == redact_from(Tail(text), mapping, mode, draws)
         IN  [text |-> <<Head(text)>> \o rest.text, mapping |-> rest.mapping]
    ELSE LET memo == _replace(Head(text), mapping, mode, draws)
             rest == redact_from(Tail(text), memo, mode, draws)
         IN  [text |-> <<memo[Head(text)]>> \o rest.text, mapping |-> rest.mapping]

\* RedactorEngine.redact on a fresh engine: (redacted_text, mapping).
redact_text(text, mode, draws) == redact_from(text, << >>, mode, draws)

\* What the random source may return during one redact(text): one value per
\* replacement the call generates.  Deterministic mode draws nothing.
Draws(text, mode) ==
    IF mode = "deterministic" THEN { << >> }
    ELSE [1..Cardinality({text[i] : i \in 1..Len(text)} \cap Identifiers) -> Replacements]

\* ValidationError.errors() of pydantic: one entry per failing field, in field
\* order, each carrying the offending input value.  The input of a missing
\* field is the whole document.
RawDocument(parsed) ==
    parsed.text \o (IF parsed.mode = None THEN <<>> ELSE <<parsed.mode>>)

TextErrors(has_text, text, document) ==
    IF ~has_text
    THEN << [loc |-> "text", type |-> "missing", input |-> document] >>
    ELSE IF Len(text) < 1
    THEN << [loc |-> "text", type |-> "string_too_short", input |-> text] >>
    ELSE << >>

ModeErrors(mode) ==
    IF mode \in {None, "random", "deterministic"} THEN << >>
    ELSE << [loc |-> "mode", type |-> "enum", input |-> <<mode>>] >>

Accepted(text, mode) ==
    [ok |-> TRUE, detail |-> None, errors |-> <<>>, text |-> text,
     mode |-> IF mode = None THEN "random" ELSE mode]

Refused(detail, errors) ==
    [ok |-> FALSE, detail |-> detail, errors |-> errors, text |-> <<>>, mode |-> None]

ParseBodyNoMinLength(body) ==
    IF body.content_type = "text/plain"
    THEN Accepted(body.text, None)
    ELSE IF ~body.parsed.well_formed
    THEN Refused("Invalid request body", <<>>)
    ELSE IF \/ ~body.parsed.has_text
            \/ body.parsed.mode \notin {None, "random", "deterministic"}
    THEN Refused("Validation error",
                 TextErrors(body.parsed.has_text, <<"w">>, RawDocument(body.parsed))
                    \o ModeErrors(body.parsed.mode))
    ELSE Accepted(body.parsed.text, body.parsed.mode)

\* The body parsing of the redact handler: RedactRequest(text=...) for
\* text/plain, json.loads and RedactRequest.model_validate otherwise.
ParseBody(body) ==
    IF body.content_type = "text/plain"
    THEN IF TextErrors(TRUE, body.text, body.text) = <<>>
         THEN Accepted(body.text, None)
         ELSE Refused("Validation error", TextErrors(TRUE, body.text, body.text))
    ELSE IF ~body.parsed.well_formed
    THEN Refused("Invalid request body", <<>>)
    ELSE LET errors == TextErrors(body.parsed.has_text, body.parsed.text,
                                  RawDocument(body.parsed))
                          \o ModeErrors(body.parsed.mode)
         IN  IF errors # <<>>
             THEN Refused("Validation error", errors)
             ELSE Accepted(body.parsed.text, body.parsed.mode)

\* health()
Health(r) ==
    /\ req[r].pc = "handler"
    /\ req[r].path = "/health"
    /\ Advance(r, [Entered(r, "handler") EXCEPT
                      !.pc = "context_ret",
                      !.response = Json(200, None)])
    /\ UNCHANGED <<app, engine_env, lock_env, store_env, objs, now, entries, admitted, last_check, checks, store, uuids>>

\* redact() without settings: "request.app.state.settings" raises
\* AttributeError before the body is looked at.
RedactNoSettings(r) ==
    /\ req[r].pc = "handler"
    /\ req[r].path = "/redact"
    /\ ~app.settings
    /\ Advance(r, [Entered(r, "handler") EXCEPT !.pc = "logging_ret", !.exc = "AttributeError"])
    /\ UNCHANGED <<app, engine_env, lock_env, store_env, objs, now, entries, admitted, last_check, checks, store, uuids>>

\* redact(), up to "await store.save(...)".
Redact(r) ==
    /\ req[r].pc = "handler"
    /\ req[r].path = "/redact"
    /\ app.settings
    /\ \E streamed \in Bodies :
       LET cached == req[r].state_body # NoBody
           body   == IF cached THEN req[r].state_body ELSE streamed
           reads  == IF cached THEN 0 ELSE 1
           parsed == ParseBody(body)
       IN  /\ cached => streamed = EmptyBody
           /\ IF ~parsed.ok
              THEN /\ Advance(r, [Entered(r, "handler") EXCEPT
                                  !.pc = "context_ret",
                                  !.body = body,
                                  !.body_reads = @ + reads,
                                  !.response =
                                      [Json(400, parsed.detail) EXCEPT
                                          !.errors = parsed.errors]])
                   /\ UNCHANGED uuids
              ELSE \E draws \in Draws(parsed.text, parsed.mode) :
                /\ uuids' = uuids + 1
                /\ Advance(r, [Entered(r, "handler") EXCEPT
                                  !.pc = "saving",
                                  !.body = body,
                                  !.body_reads = @ + reads,
                                  !.engines = @ + 1,
                                  !.engine =
                                      [mapping_id |-> uuids + 1,
                                       mode |-> parsed.mode,
                                       result |-> redact_text(parsed.text, parsed.mode, draws)]])
    /\ UNCHANGED <<app, engine_env, lock_env, store_env, objs, now, entries, admitted, last_check, checks, store>>

\* redact(), from the return of store.save on.
RedactSave(r) ==
    /\ req[r].pc = "saving"
    /\ LET a   == NewAddress(objs)
           res == save(objs @@ (a :> req[r].engine.result.mapping), store,
                       req[r].engine.mapping_id, a)
       IN  /\ store' = res.store
           /\ objs' = Collect(res.objs, res.store, held)
    /\ Advance(r, [req[r] EXCEPT
                      !.pc = "context_ret",
                      !.saved = Append(@, req[r].engine.mapping_id),
                      !.response =
                          [Json(200, None) EXCEPT
                              !.mapping_id = req[r].engine.mapping_id,
                              !.mapping_count =
                                  Cardinality(DOMAIN req[r].engine.result.mapping)]])
    /\ UNCHANGED <<app, engine_env, lock_env, store_env, now, entries, admitted, last_check, checks, uuids>>

\* store.save raises (the remote backend's set() fails): nothing is stored and
\* the exception leaves the handler.
RedactSaveRaises(r) ==
    /\ req[r].pc = "saving"
    /\ \E kind \in {"ConnectionError", "TimeoutError"} :
          Advance(r, [req[r] EXCEPT !.pc = "logging_ret", !.exc = kind])
    /\ UNCHANGED <<app, engine_env, lock_env, store_env, objs, now, entries, admitted, last_check, checks, store, uuids>>

\* RequestContextMiddleware.dispatch, after call_next has returned a response.
ContextReturn(r) ==
    /\ req[r].pc = "context_ret"
    /\ Advance(r, [req[r] EXCEPT
                      !.pc = "logging_ret",
                      !.response.headers = @ \cup {"X-Request-ID"}])
    /\ UNCHANGED <<app, engine_env, lock_env, store_env, objs, now, entries, admitted, last_check, checks, store, uuids>>

\* StructuredLoggingMiddleware.dispatch, after call_next has returned or raised.
LoggingReturn(r) ==
    /\ req[r].pc = "logging_ret"
    /\ Advance(r, [req[r] EXCEPT
                      !.pc = "up",
                      !.records = Append(@,
                          [request_id |-> req[r].state_request_id,
                           path |-> req[r].path,
                           status_code |-> IF req[r].exc # None THEN 500
                                           ELSE req[r].response.status_code,
                           processing_time |-> now - req[r].log_started_at,
                           level |-> IF req[r].exc # None THEN "error" ELSE "info"])])
    /\ UNCHANGED <<app, engine_env, lock_env, store_env, objs, now, entries, admitted, last_check, checks, store, uuids>>

Send(r, response) == [req[r] EXCEPT !.pc = "closed", !.sent = Append(@, response)]

\* RequestTimeoutMiddleware.dispatch: call_next returned in time.
TimeoutReturn(r) ==
    /\ req[r].pc = "up"
    /\ ~req[r].response_sent
    /\ req[r].exc = None
    /\ req' = [req EXCEPT ![r] = Send(r, req[r].response)]
    /\ UNCHANGED <<app, engine_env, lock_env, store_env, objs, now, entries, admitted, last_check, checks, store, uuids>>

\* RequestTimeoutMiddleware.dispatch: "except asyncio.TimeoutError" on an
\* exception of that class raised by the chain below.
TimeoutCatch(r) ==
    /\ req[r].pc = "up"
    /\ ~req[r].response_sent
    /\ req[r].deadline # NoNumber
    /\ req[r].exc = "TimeoutError"
    /\ req' = [req EXCEPT ![r] =
                 [Send(r, Json(504, "Request timed out")) EXCEPT !.on_timeout = @ + 1]]
    /\ UNCHANGED <<app, engine_env, lock_env, store_env, objs, now, entries, admitted, last_check, checks, store, uuids>>

\* general_exception_handler: any other exception leaves every stage and is
\* answered by the server-error layer outside the chain.
ServerError(r) ==
    /\ req[r].pc = "up"
    /\ ~req[r].response_sent
    /\ req[r].exc # None
    /\ req[r].exc = "TimeoutError" => req[r].deadline = NoNumber
    /\ req' = [req EXCEPT ![r] = Send(r, Json(500, "Internal server error"))]
    /\ UNCHANGED <<app, engine_env, lock_env, store_env, objs, now, entries, admitted, last_check, checks, store, uuids>>

Below == {"payload", "payload_body", "rate_limit", "logging", "context",
          "handler", "saving", "context_ret", "logging_ret", "up"}

\* RequestTimeoutMiddleware.dispatch: the deadline of asyncio.timeout() passes
\* while call_next is awaited.  The await is cancelled in the stage's own task;
\* the chain below runs in the task call_next started for it and goes on.
TimeoutExpire(r) ==
    /\ req[r].pc \in Below
    /\ ~req[r].response_sent
    /\ req[r].deadline # NoNumber
    /\ now >= req[r].deadline
    /\ req' = [req EXCEPT ![r] =
                 [req[r] EXCEPT
                     !.sent = Append(@, Json(504, "Request timed out")),
                     !.on_timeout = @ + 1,
                     !.response_sent = TRUE]]
    /\ UNCHANGED <<app, engine_env, lock_env, store_env, objs, now, entries, admitted, last_check, checks, store, uuids>>

\* The chain below the timeout stage ends after the 504 went out: its response
\* or exception is dropped.
LateResult(r) ==
    /\ req[r].pc = "up"
    /\ req[r].response_sent
    /\ req' = [req EXCEPT ![r].pc = "closed"]
    /\ UNCHANGED <<app, engine_env, lock_env, store_env, objs, now, entries, admitted, last_check, checks, store, uuids>>

Next ==
    \/ RequestTick
    \/ \E key \in Keys : OtherRequest(key)
    \/ \E r \in Reqs :
          \/ TimeoutDispatch(r)
          \/ PayloadSizeDispatch(r)
          \/ PayloadSizeBody(r)
          \/ ClientDisconnect(r)
          \/ RateLimitDispatch(r, Peers)
          \/ LoggingDispatch(r)
          \/ ContextDispatch(r)
          \/ Health(r)
          \/ Redact(r)
          \/ RedactSave(r)
          \/ RedactSaveRaises(r)
          \/ ContextReturn(r)
          \/ LoggingReturn(r)
          \/ TimeoutReturn(r)
          \/ TimeoutCatch(r)
          \/ ServerError(r)
          \/ TimeoutExpire(r)
          \/ LateResult(r)

Spec == Init /\ [][Next]_vars

\* The chain on an application whose state lacks the settings, the limiter,
\* both or neither, as a test harness builds it around the stages.
InitStages ==
    /\ InitRequests
    /\ backend = "memory"
    /\ ttl_seconds = mapping_ttl_seconds
    /\ _cleanup_task = 1
    /\ tasks = << [state |-> "sleeping", wake_at |-> cleanup_interval_seconds] >>
    /\ app \in { [RunningApp EXCEPT !.settings = settings, !.rate_limiter = limiter] :
                    settings \in BOOLEAN, limiter \in BOOLEAN }

NextStages ==
    \/ RequestTick
    \/ \E key \in Keys : ~limiter_is_None /\ OtherRequest(key)
    \/ \E r \in Reqs :
          \/ TimeoutDispatch(r)
          \/ PayloadSizeDispatch(r)
          \/ PayloadSizeBody(r)
          \/ ClientDisconnect(r)
          \/ RateLimitDispatch(r, Peers)
          \/ RateLimitPassThrough(r)
          \/ LoggingDispatch(r)
          \/ ContextDispatch(r)
          \/ Health(r)
          \/ RedactNoSettings(r)
          \/ Redact(r)
          \/ RedactSave(r)
          \/ RedactSaveRaises(r)
          \/ ContextReturn(r)
          \/ LoggingReturn(r)
          \/ TimeoutReturn(r)
          \/ TimeoutCatch(r)
          \/ ServerError(r)
          \/ TimeoutExpire(r)
          \/ LateResult(r)

SpecStages == InitStages /\ [][NextStages]_vars

\* The chain as far as the rate-limit stage and back, for requests with any
\* X-Forwarded-For header and either peer, among requests of other clients.
NextClient ==
    \/ RequestTick
    \/ \E key \in Keys : OtherRequest(key)
    \/ \E r \in Reqs :
          \/ TimeoutDispatch(r)
          \/ PayloadSizeDispatch(r)
          \/ PayloadSizeBody(r)
          \/ RateLimitDispatch(r, ClientPeers)
          \/ TimeoutReturn(r)

SpecClient == Init /\ [][NextClient]_vars

\* The limiter on its own: check() and reset() called directly, time passing.
NextLimiter ==
    \/ \E key \in Keys : LimiterCheck(key)
    \/ LimiterReset
    \/ Tick

SpecLimiter == Init /\ [][NextLimiter]_vars

\* A store as its constructor leaves it, with either TTL setting, and its
\* callers: the operations called directly, time passing.
InitStore ==
    /\ InitRequests
    /\ backend = "memory"
    /\ ttl_seconds \in {NoNumber, mapping_ttl_seconds}
    /\ _cleanup_task = 0
    /\ tasks = << >>
    /\ app = NoApp

NextStore ==
    \/ \E id \in MappingIds, d \in Dicts : StoreSave(id, d)
    \/ \E id \in MappingIds : StoreGet(id)
    \/ \E id \in MappingIds : StoreDelete(id)
    \/ StoreCount
    \/ \E d \in Dicts : CallerMutate(d)
    \/ EvictExpired
    \/ StoreTick

SpecStore == InitStore /\ [][NextStore]_vars

\* The store's lifecycle: startup() and shutdown() called by its owner, the
\* cleanup task it runs, and one mapping saved, read and deleted meanwhile.
NextCleanup ==
    \/ StoreStartup
    \/ \E t \in 1..MaxTasks : Sweep(t)
    \/ StoreShutdown
    \/ \E t \in 1..MaxTasks : TaskEnds(t)
    \/ StoreShutdownEnd
    \/ StoreSave(1, ("A" :> "X"))
    \/ StoreGet(1)
    \/ StoreDelete(1)
    \/ RedisStartup
    \/ RedisShutdown
    \/ RedisSave(1, ("A" :> "X"))
    \/ RedisGet(1)
    \/ RedisDelete(1)
    \/ StoreTick

\* Either backend as its constructor leaves it, with either TTL setting.
InitCleanup ==
    /\ InitRequests
    /\ backend \in {"memory", "redis"}
    /\ ttl_seconds \in {NoNumber, mapping_ttl_seconds}
    /\ _cleanup_task = 0
    /\ tasks = << >>
    /\ app = NoApp

SpecCleanup == InitCleanup /\ [][NextCleanup]_vars

\* The event loop runs every task that can run, and time passes.
FairSpecCleanup ==
    /\ SpecCleanup
    /\ WF_vars(StoreTick)
    /\ WF_vars(\E t \in 1..MaxTasks : Sweep(t))
    /\ WF_vars(\E t \in 1..MaxTasks : TaskEnds(t))
    /\ WF_vars(StoreShutdownEnd)

\* The in-memory store called by coroutines side by side, statement by
\* statement, time passing.
NextLock ==
    \/ \E c \in Callers, op \in Operations, id \in MappingIds \cup {0} :
          Enter(c, op, id, IF op = "save" THEN ("A" :> "X") ELSE << >>)
    \/ \E c \in Callers :
          \/ Acquire(c)
          \/ SaveWrite(c)
          \/ GetLookup(c)
          \/ GetReturn(c)
          \/ DeleteReturn(c)
          \/ CountReturn(c)
          \/ EvictCollect(c)
          \/ EvictRemove(c)
          \/ ClearReturn(c)
          \/ Release(c)
    \/ LockTick

SpecLock == InitStore /\ [][NextLock]_vars

\* ------------------------------------------------------------- lifespan()
\* lifespan() statement by statement, from its first line to the end of its
\* finally block, and the /health/ready handler called meanwhile.
Lifespan(pc) ==
    /\ app.pc = pc
    /\ last' = NoLast
    /\ UNCHANGED <<now, last_check, checks, uuids, req, held, ttl_seconds, backend,
                   engine_env, lock_env>>

\* The store is constructed and "await mapping_store.startup()" is reached:
\* the in-memory startup() returns at once, the Redis one awaits ping().
LifespanEnter ==
    /\ Lifespan("new")
    /\ IF backend = "redis"
       THEN /\ app' = [app EXCEPT !.pc = "pinging", !.settings = TRUE, !.redis = TRUE]
            /\ UNCHANGED <<tasks, _cleanup_task, shutting, store, objs, saves>>
       ELSE /\ startup
            /\ app' = [app EXCEPT !.pc = "started", !.settings = TRUE, !.started = TRUE]
    /\ UNCHANGED <<entries, admitted, redis>>

LifespanPingReturns ==
    /\ Lifespan("pinging")
    /\ app' = [app EXCEPT !.pc = "started", !.started = TRUE]
    /\ UNCHANGED <<entries, admitted, redis, tasks, _cleanup_task, shutting, store,
                   objs, saves>>

\* ping() raises: lifespan() ends with the exception, before its try block.
LifespanPingRaises ==
    /\ Lifespan("pinging")
    /\ app' = [app EXCEPT !.pc = "failed"]
    /\ UNCHANGED <<entries, admitted, redis, tasks, _cleanup_task, shutting, store,
                   objs, saves>>

\* app.state.mapping_store = mapping_store
LifespanSetStore ==
    /\ Lifespan("started")
    /\ app' = [app EXCEPT !.pc = "has_store", !.mapping_store = TRUE]
    /\ UNCHANGED <<entries, admitted, redis, tasks, _cleanup_task, shutting, store,
                   objs, saves>>

\* app.state.rate_limiter = SlidingWindowRateLimiter(...)
LifespanSetLimiter ==
    /\ Lifespan("has_store")
    /\ app' = [app EXCEPT !.pc = "has_limiter", !.rate_limiter = TRUE]
    /\ UNCHANGED <<entries, admitted, redis, tasks, _cleanup_task, shutting, store,
                   objs, saves>>

\* app.state.ready = True, and the yield.
LifespanSetReady ==
    /\ Lifespan("has_limiter")
    /\ app' = [app EXCEPT !.pc = "serving", !.ready = "true"]
    /\ UNCHANGED <<entries, admitted, redis, tasks, _cleanup_task, shutting, store,
                   objs, saves>>

\* finally: app.state.ready = False
ExitClearReady ==
    /\ Lifespan("serving")
    /\ app' = [app EXCEPT !.pc = "exit_reset", !.ready = "false",
                          !.steps = Append(@, "ready")]
    /\ UNCHANGED <<entries, admitted, redis, tasks, _cleanup_task, shutting, store,
                   objs, saves>>

\* await app.state.rate_limiter.reset()
ExitLimiterReset ==
    /\ Lifespan("exit_reset")
    /\ reset
    /\ app' = [app EXCEPT !.pc = "exit_store", !.steps = Append(@, "limiter")]
    /\ UNCHANGED <<redis, tasks, _cleanup_task, shutting, store, objs, saves>>

closes_redis_never == FALSE

\* "settings.redis_url and hasattr(app.state, 'redis')"
closes_redis == backend = "redis" /\ app.redis

\* The position after "await mapping_store.shutdown()" has returned.
AfterStoreShutdown == IF closes_redis THEN "exit_redis" ELSE "stopped"

\* await mapping_store.shutdown(): the Redis store closes its connection, the
\* in-memory one cancels its task and awaits it, or clears the table at once.
ExitStoreShutdown ==
    /\ Lifespan("exit_store")
    /\ IF backend = "redis"
       THEN /\ redis' = [redis EXCEPT !.closed = @ + 1]
            /\ app' = [app EXCEPT !.pc = AfterStoreShutdown,
                                  !.steps = Append(@, "store")]
            /\ UNCHANGED <<tasks, _cleanup_task, shutting, store, objs, saves>>
       ELSE /\ shutdown
            /\ app' = IF _cleanup_task # 0
                      THEN [app EXCEPT !.pc = "exit_store_wait"]
                      ELSE [app EXCEPT !.pc = AfterStoreShutdown,
                                       !.steps = Append(@, "store")]
            /\ UNCHANGED redis
    /\ UNCHANGED <<entries, admitted>>

ExitStoreResumed ==
    /\ Lifespan("exit_store_wait")
    /\ shutdown_resumed
    /\ app' = [app EXCEPT !.pc = AfterStoreShutdown, !.steps = Append(@, "store")]
    /\ UNCHANGED <<entries, admitted, redis>>

\* await app.state.redis.close()
ExitRedisClose ==
    /\ Lifespan("exit_redis")
    /\ redis' = [redis EXCEPT !.closed = @ + 1]
    /\ app' = [app EXCEPT !.pc = "stopped", !.steps = Append(@, "redis")]
    /\ UNCHANGED <<entries, admitted, tasks, _cleanup_task, shutting, store, objs,
                   saves>>

health_ready_ignoring_ready(count_completed) ==
    IF count_completed THEN 200 ELSE 503

\* health_ready: the status it answers, count() having completed or raised.
health_ready(count_completed) ==
    IF count_completed /\ app.ready = "true" THEN 200 ELSE 503

Answer(count_completed) ==
    [Did("health_ready", 0) EXCEPT
        !.found = count_completed,
        !.number = health_ready(count_completed),
        !.detail = IF health_ready(count_completed) = 200 THEN None
                   ELSE "Service unavailable"]

\* health_ready, up to the return of "await store.count()".  Without
\* app.state.mapping_store the attribute access raises; the in-memory count()
\* returns at once; the Redis one awaits scan(), which may raise.
HealthReady ==
    /\ app.probe = "idle"
    /\ IF ~app.mapping_store
       THEN last' = Answer(FALSE) /\ UNCHANGED app
       ELSE IF backend = "memory"
       THEN last' = Answer(TRUE) /\ UNCHANGED app
       ELSE \E completed \in BOOLEAN :
              IF completed
              THEN last' = NoLast /\ app' = [app EXCEPT !.probe = "counted"]
              ELSE last' = Answer(FALSE) /\ UNCHANGED app
    /\ UNCHANGED <<engine_env, lock_env, now, entries, admitted, last_check, checks, store, uuids, req, objs,
                   held, ttl_seconds, backend, _cleanup_task, tasks, shutting, redis,
                   saves>>

\* health_ready, from the return of count() on.
HealthReadyResumed ==
    /\ app.probe = "counted"
    /\ last' = Answer(TRUE)
    /\ app' = [app EXCEPT !.probe = "idle"]
    /\ UNCHANGED <<engine_env, lock_env, now, entries, admitted, last_check, checks, store, uuids, req, objs,
                   held, ttl_seconds, backend, _cleanup_task, tasks, shutting, redis,
                   saves>>

\* Requests served meanwhile: the rate-limit stage checks a key once the
\* limiter exists, and a handler saves a mapping once the store is published.
ServedCheck(key) == app.rate_limiter /\ OtherRequest(key)

ServedSave == app.mapping_store /\ StoreSave(1, ("A" :> "X"))

\* The process before lifespan() runs, with either backend and TTL setting.
InitLifespan ==
    /\ InitRequests
    /\ backend \in {"memory", "redis"}
    /\ ttl_seconds \in {NoNumber, mapping_ttl_seconds}
    /\ _cleanup_task = 0
    /\ tasks = << >>
    /\ app = NoApp

NextLifespan ==
    \/ LifespanEnter
    \/ LifespanPingReturns
    \/ LifespanPingRaises
    \/ LifespanSetStore
    \/ LifespanSetLimiter
    \/ LifespanSetReady
    \/ ExitClearReady
    \/ ExitLimiterReset
    \/ ExitStoreShutdown
    \/ \E t \in 1..MaxTasks : TaskEnds(t)
    \/ ExitStoreResumed
    \/ ExitRedisClose
    \/ HealthReady
    \/ HealthReadyResumed
    \/ \E key \in Keys : ServedCheck(key)
    \/ ServedSave

SpecLifespan == InitLifespan /\ [][NextLifespan]_vars

\* ------------------------------------------------ RedactorEngine: specs
\* One engine and one redact() call on it, over all the texts.
NextRedact ==
    \/ \E c \in Constructions :
          engines = << >> /\ EngineInit(c.mode, c.secret, c.context)
    \/ \E text \in EngineTexts, stream \in Streams \cup {NoStream} :
          Calls(Len(engines)) = 0 /\ EngineRedact(1, text, stream)

SpecRedact == Init /\ [][NextRedact]_vars

\* Engines side by side: requests each constructing an engine, redacting a
\* text and saving the mapping, and engines called more than once.
NextEngines ==
    \/ \E c \in FewConstructions : EngineInit(c.mode, c.secret, c.context)
    \/ \E e \in 1..MaxEngines, text \in FewTexts, stream \in Streams \cup {NoStream} :
          EngineRedact(e, text, stream)
    \/ \E e \in 1..MaxEngines : EngineSave(e)

SpecEngines == Init /\ [][NextEngines]_vars

\* ------------------------------------------------------------------ claims
Stages(r) == { req[r].trace[i] : i \in 1..Len(req[r].trace) }
Statuses(r) == { req[r].sent[i].status_code : i \in 1..Len(req[r].sent) }

\* The order of the stages as the specification lists it.
ListedRank(stage) ==
    CASE stage = "context" -> 1
      [] stage = "payload" -> 2
      [] stage = "timeout" -> 3
      [] stage = "rate_limit" -> 4
      [] stage = "logging" -> 5
      [] stage = "handler" -> 6

\* C1: within one request the stages are entered in the order context,
\* payload-size, timeout, rate-limit, logging, handler, and every stage that
\* has been entered finds the request id and the start time already assigned.
C1_ListedStageOrder ==
    \A r \in Reqs :
        /\ \A i, j \in 1..Len(req[r].trace) :
              i < j => ListedRank(req[r].trace[i]) < ListedRank(req[r].trace[j])
        /\ req[r].trace # <<>> =>
              /\ req[r].trace[1] = "context"
              /\ req[r].state_request_id # 0
              /\ req[r].state_started_at # NoNumber

\* C2: every response sent to the client carries the X-Request-ID header.
C2_RequestIdOnEveryResponse ==
    \A r \in Reqs :
        \A i \in 1..Len(req[r].sent) : "X-Request-ID" \in req[r].sent[i].headers

\* C3: for every key, the admitted checks whose timestamps lie in the trailing
\* window (now - window, now] never number more than rate_limit_requests.
C3_WindowNeverExceeded ==
    \A key \in Keys : Cardinality(InWindow(key, now)) <= rate_limit_requests

C3_Witness ==
    /\ last_check.key # None
    /\ ~last_check.allowed
    /\ last_check.at = now
    /\ Cardinality(InWindow(last_check.key, now)) = rate_limit_requests

\* C4: a check is admitted exactly when fewer than rate_limit_requests earlier
\* admissions of its key lie in the window; an admitted check reports no
\* retry-after, a denied one max(0, window - (now - oldest admission in the
\* window)), which is greater than 0 and at most the window.
C4_FirstNAdmitted ==
    last_check.key # None =>
        /\ last_check.allowed <=> last_check.before < rate_limit_requests
        /\ last_check.allowed => last_check.retry_after = NoNumber
        /\ ~last_check.allowed =>
              /\ last_check.retry_after =
                    Max(0, rate_limit_window_seconds - (last_check.at - last_check.oldest))
              /\ last_check.retry_after > 0
              /\ last_check.retry_after <= rate_limit_window_seconds

C4_Witness ==
    /\ last_check.key # None
    /\ ~last_check.allowed
    /\ last_check.retry_after > 0
    /\ last_check.retry_after < rate_limit_window_seconds
    /\ last_check.before = rate_limit_requests

\* C5: a request the limiter denies gets the terminal 429 "Too many requests"
\* from the rate-limit stage, with Retry-After whenever the reported
\* retry-after is not zero; no later stage and no handler runs for it, no
\* engine is constructed, nothing is saved, and the client is sent nothing
\* but that 429 (or the 504 of the timeout stage around it).
C5_DeniedIsTerminal429 ==
    \A r \in Reqs :
        req[r].allowed = "no" =>
            /\ req[r].pc \in {"up", "closed"}
            /\ req[r].response.status_code = 429
            /\ req[r].response.detail = "Too many requests"
            /\ req[r].response.retry_after # 0 =>
                  "Retry-After" \in req[r].response.headers
            /\ Stages(r) \cap {"logging", "context", "handler"} = {}
            /\ req[r].engines = 0
            /\ req[r].saved = <<>>
            /\ \A i \in 1..Len(req[r].sent) :
                  \/ req[r].sent[i] = req[r].response
                  \/ req[r].sent[i].status_code = 504

C5_Witness ==
    \E r \in Reqs :
        /\ req[r].allowed = "no"
        /\ req[r].pc = "closed"
        /\ Statuses(r) = {429}
        /\ "Retry-After" \in req[r].sent[1].headers

\* C6: once the deadline has fired, the on-timeout callback has run exactly
\* once, exactly one response has been sent and it is the 504, and no stage of
\* the chain below the timeout stage runs any more.
C6_TimeoutCancelsDownstream ==
    \A r \in Reqs :
        req[r].response_sent =>
            /\ req[r].on_timeout = 1
            /\ Len(req[r].sent) = 1
            /\ req[r].sent[1].status_code = 504
            /\ req[r].sent[1].detail = "Request timed out"
            /\ ~req[r].late

\* C7: a request whose exchange is over has produced exactly one outcome record.
C7_OneRecordPerRequest ==
    \A r \in Reqs : req[r].pc = "closed" => Len(req[r].records) = 1

\* C8: the payload-size stage answers 413 exactly when the declared
\* Content-Length or the measured body length exceeds max_payload_bytes, the
\* former before the body is read; after a 413 no later stage and no handler
\* runs; an accepted body is cached in request.state and the stream is read
\* once only.
C8_PayloadGuard ==
    \A r \in Reqs :
        LET declared_over == /\ req[r].content_length # NoNumber
                             /\ req[r].content_length > max_payload_bytes
            measured      == req[r].body # NoBody
            measured_over == measured /\ BodyLen(req[r].body) > max_payload_bytes
            rejected      == req[r].response.status_code = 413
        IN  "payload" \in Stages(r) =>
                /\ rejected <=> (declared_over \/ measured_over)
                /\ declared_over => ~measured /\ req[r].body_reads = 0
                /\ rejected =>
                      /\ Stages(r) = {"timeout", "payload"}
                      /\ req[r].state_body = NoBody
                      /\ req[r].engines = 0
                      /\ req[r].pc \in {"up", "closed"}
                /\ (measured /\ ~measured_over) =>
                      /\ req[r].state_body = req[r].body
                      /\ req[r].pc = "rate_limit" \/ "rate_limit" \in Stages(r)
                /\ req[r].body_reads <= 1

C8_Witness ==
    \E r \in Reqs :
        /\ req[r].content_length = max_payload_bytes
        /\ BodyLen(req[r].body) = max_payload_bytes
        /\ "handler" \in Stages(r)
        /\ req[r].state_body = req[r].body
        /\ req[r].body_reads = 1

\* C9: a request answered 200 has made exactly one save, under the mapping_id
\* it returns and with mapping_count entries; a request answered with any
\* other status has saved nothing.
C9_OnlySuccessSaves ==
    \A r \in Reqs :
        \A i \in 1..Len(req[r].sent) :
            IF req[r].sent[i].status_code = 200 /\ req[r].path = "/redact"
            THEN /\ req[r].saved = << req[r].sent[i].mapping_id >>
                 /\ req[r].sent[i].mapping_count =
                       Cardinality(DOMAIN req[r].engine.result.mapping)
            ELSE req[r].saved = <<>>

\* The body shapes the /redact handler must refuse.
WrongShape(body) ==
    \/ body.content_type = "text/plain" /\ body.text = <<>>
    \/ /\ body.content_type = "application/json"
       /\ \/ ~body.parsed.well_formed
          \/ ~body.parsed.has_text
          \/ body.parsed.text = <<>>
          \/ body.parsed.mode \notin {None, "random", "deterministic"}

\* C10: a /redact request whose body has the wrong shape gets 400 from the
\* handler; no engine is constructed for it and nothing is saved.
C10_WrongShapeIs400 ==
    \A r \in Reqs :
        (/\ req[r].path = "/redact"
         /\ "handler" \in Stages(r)
         /\ WrongShape(req[r].body)) =>
            /\ req[r].response.status_code = 400
            /\ req[r].response.detail \in {"Invalid request body", "Validation error"}
            /\ req[r].engines = 0
            /\ req[r].engine = NoEngine
            /\ req[r].saved = <<>>
            /\ req[r].exc = None
            /\ Statuses(r) \subseteq {400, 504}

C10_Witness ==
    \E r \in Reqs :
        /\ req[r].path = "/redact"
        /\ "handler" \in Stages(r)
        /\ req[r].body.content_type = "application/json"
        /\ req[r].body.parsed.mode = "bogus"
        /\ Statuses(r) = {400}

\* The fixed texts the program uses as "detail" of an error body.
ErrorDetails ==
    {"Invalid request body", "Validation error", "Payload too large",
     "Too many requests", "Internal server error", "Service unavailable",
     "Request timed out"}

\* C11: the body of every error response sent (400, 413, 429, 500, 503, 504)
\* is an object with the single key "detail", whose value is one of the fixed
\* human-readable texts: it has no further key, echoes no part of the request's
\* input and carries no mapping content.
C11_ErrorBodyIsDetailOnly ==
    \A r \in Reqs :
        \A i \in 1..Len(req[r].sent) :
            req[r].sent[i].status_code \in {400, 413, 429, 500, 503, 504} =>
                /\ req[r].sent[i].detail \in ErrorDetails
                /\ req[r].sent[i].errors = <<>>
                /\ req[r].sent[i].mapping_id = 0
                /\ req[r].sent[i].mapping_count = 0

\* C12: every response sent to a GET /health request is the 200 of the health
\* handler, whatever the limiter holds for the caller.
C12_HealthAlways200 ==
    \A r \in Reqs :
        req[r].path = "/health" =>
            \A i \in 1..Len(req[r].sent) :
                /\ req[r].sent[i].status_code = 200
                /\ req[r].sent[i].errors = <<>>

\* C14: with a TTL and no delete of the id since its last save, get(id) on the
\* in-memory store returns the saved mapping at every time up to and including
\* the expiry instant (save time + TTL) and None, not an empty mapping, at
\* every later time, whether or not a sweep has run in between.
C14_GetUntilExpiry ==
    (/\ last.op = "get"
     /\ ttl_seconds # NoNumber
     /\ last.id \in DOMAIN saves) =>
        IF now <= saves[last.id].at + ttl_seconds
        THEN last.found /\ last.mapping = saves[last.id].mapping
        ELSE ~last.found

C14_Witness ==
    /\ last.op = "get"
    /\ ttl_seconds # NoNumber
    /\ last.id \in DOMAIN saves
    /\ now = saves[last.id].at + ttl_seconds
    /\ last.found
    /\ last.mapping = << >>

\* The table holds an entry whose expiry instant has passed.
HoldsExpired ==
    \E id \in DOMAIN store :
        store[id].expire_at # NoNumber /\ store[id].expire_at < now

\* C15: on a started in-memory store with a TTL, an entry whose expiry instant
\* has passed is eventually out of the table without any get (whenever the
\* cleanup task's sleep ends within MaxStoreTime), and a sweep removes only
\* entries whose expiry instant has passed.
C15_SweepRemovesExpired ==
    /\ (/\ HoldsExpired
         /\ _cleanup_task # 0
         /\ tasks[_cleanup_task].wake_at <= MaxStoreTime) ~> ~HoldsExpired
    /\ [](last.op = "sweep" =>
            \A e \in last.removed : e.expire_at # NoNumber /\ e.expire_at < now)

C15_Witness ==
    /\ last.op = "sweep"
    /\ last.removed # {}
    /\ _cleanup_task # 0
    /\ tasks[_cleanup_task].state = "sleeping"

\* C16: with ttl_seconds None a saved mapping has no expiry on either backend
\* and get returns it at every later time until it is deleted (or the store is
\* shut down), and startup() of the in-memory store creates no cleanup task.
C16_NoTtlNeverExpires ==
    ttl_seconds = NoNumber =>
        /\ tasks = << >>
        /\ _cleanup_task = 0
        /\ \A id \in DOMAIN saves :
              IF backend = "memory"
              THEN id \in DOMAIN store /\ store[id].expire_at = NoNumber
              ELSE id \in DOMAIN redis.keys /\ redis.keys[id].expire_at = NoNumber
        /\ (last.op = "get" /\ last.id \in DOMAIN saves) =>
              last.found /\ last.mapping = saves[last.id].mapping

C16_Witness ==
    /\ ttl_seconds = NoNumber
    /\ backend = "redis"
    /\ last.op = "get"
    /\ last.found
    /\ now > saves[last.id].at + mapping_ttl_seconds

\* The cleanup tasks that have not finished.
Alive == { t \in 1..Len(tasks) : tasks[t].state # "done" }

\* C17: at most one cleanup task of the in-memory store is alive at any time,
\* and it is the one the store refers to; when the store refers to none, as
\* after shutdown() has returned, every task ever created has finished.
C17_OneCleanupTask ==
    /\ Cardinality(Alive) <= 1
    /\ Alive \subseteq {_cleanup_task}
    /\ last.op = "shutdown" => _cleanup_task = 0 /\ Alive = {}

C17_Witness ==
    /\ last.op = "shutdown"
    /\ Len(tasks) = 2
    /\ tasks[2].state = "done"

\* C19: a save under an id that is already there replaces the entry: the
\* table then holds the new mapping with the expiry instant of the second
\* save, get returns the new mapping, and count() is the number of ids saved
\* whose expiry instant lies ahead.
C19_SaveOverwrites ==
    /\ (last.op = "save" /\ last.found) =>
          /\ last.id \in DOMAIN store
          /\ objs[store[last.id].mapping] = last.mapping
          /\ store[last.id].expire_at =
                IF ttl_seconds = NoNumber THEN NoNumber ELSE now + ttl_seconds
    /\ (last.op = "get" /\ last.found) =>
          last.id \in DOMAIN saves /\ last.mapping = saves[last.id].mapping
    /\ last.op = "count" =>
          last.number = Cardinality({ id \in DOMAIN saves :
                                        \/ ttl_seconds = NoNumber
                                        \/ saves[id].at + ttl_seconds > now })

C19_Witness ==
    /\ last.op = "save"
    /\ last.found
    /\ ttl_seconds # NoNumber
    /\ now > 0
    /\ store[last.id].expire_at = now + ttl_seconds
    /\ Cardinality(DOMAIN store) = 2

\* C20: as long as an id stays in the table without a new save of it, the
\* items get would return for it do not change, whatever the caller does to
\* the dict it passed to save or was given by get.
C20_StoredMappingImmutable ==
    [][\A id \in MappingIds :
          (/\ id \in DOMAIN store
           /\ id \in DOMAIN store'
           /\ ~(last'.op = "save" /\ last'.id = id)) =>
              objs'[store'[id].mapping] = objs[store[id].mapping]]_vars

C20_Witness ==
    /\ last.op = "mutate"
    /\ held.from = "save"
    /\ held.id \in DOMAIN store
    /\ \A id \in DOMAIN store : store[id].mapping # held.ref
    /\ objs[held.ref] # objs[store[held.id].mapping]

ExitSteps ==
    IF backend = "redis" THEN <<"ready", "limiter", "store", "redis">>
    ELSE <<"ready", "limiter", "store">>

\* What the exit step that has just been recorded must have done.
ExitStepDone ==
    Len(app'.steps) = Len(app.steps) + 1 =>
        LET step == app'.steps[Len(app'.steps)] IN
        /\ step = "ready" => app'.ready = "false"
        /\ step = "limiter" =>
              entries' = << >> /\ \A k \in Keys : admitted'[k] = << >>
        /\ step = "store" =>
              IF backend = "redis" THEN redis'.closed = redis.closed + 1
              ELSE _cleanup_task' = 0 /\ store' = << >>
                   /\ \A t \in DOMAIN tasks' : tasks'[t].state = "done"
        /\ step = "redis" => redis'.closed = redis.closed + 1

\* C18: the lifespan exit clears the ready flag, then resets the limiter, then
\* shuts the store down (its cleanup task cancelled and finished, the store
\* referring to none), then closes the Redis connection if one was opened,
\* in this order; when the exit has completed all of them have happened.
C18_ShutdownOrder ==
    /\ [](/\ Len(app.steps) <= Len(ExitSteps)
          /\ \A i \in 1..Len(app.steps) : app.steps[i] = ExitSteps[i]
          /\ app.pc = "stopped" =>
                /\ app.steps = ExitSteps
                /\ app.ready = "false"
                /\ _cleanup_task = 0
                /\ Alive = {}
                /\ backend = "redis" => redis.closed >= 1)
    /\ [][ExitStepDone]_vars

C18_Witness ==
    /\ app.pc = "stopped"
    /\ backend = "redis"
    /\ app.steps = <<"ready", "limiter", "store", "redis">>
    /\ last_check.key # None
    /\ entries = << >>

\* C21: no original value recorded in the mapping that redact returns occurs
\* anywhere in the redacted text it returns, and none equals its replacement.
C21_NoLeak ==
    redaction.op = "redact" =>
        \A original \in DOMAIN redaction.mapping :
            /\ ~Occurs(original, redaction.text)
            /\ redaction.mapping[original] # original

\* C22: within one redact call all the matches of one original are replaced
\* by the same replacement, which is the mapping's entry for it, and on a new
\* engine (as the handler uses it) the mapping has as many entries as there
\* are distinct matched originals, which is the handler's mapping_count.
C22_OneReplacementPerOriginal ==
    redaction.op = "redact" =>
        LET matches == redaction.matches
            originals == { matches[i].original : i \in 1..Len(matches) }
        IN  /\ \A i, j \in 1..Len(matches) :
                  matches[i].original = matches[j].original =>
                      matches[i].replacement = matches[j].replacement
            /\ \A i \in 1..Len(matches) :
                  /\ matches[i].original \in DOMAIN redaction.mapping
                  /\ redaction.mapping[matches[i].original] = matches[i].replacement
            /\ redaction.first =>
                  /\ DOMAIN redaction.mapping = originals
                  /\ Cardinality(DOMAIN redaction.mapping) = Cardinality(originals)

C22_Witness ==
    /\ redaction.op = "redact"
    /\ redaction.mode = "random"
    /\ Len(redaction.matches) = 2
    /\ redaction.matches[1].original = redaction.matches[2].original
    /\ Cardinality(DOMAIN redaction.mapping) = 1

\* C23: the mapping a redact call returns has as its keys exactly the
\* originals matched in that call, each of them a piece of the call's own
\* input text: nothing in it comes from another call, on this engine or on
\* another one.
C23_MappingOfThisCall ==
    redaction.op = "redact" =>
        LET matches == redaction.matches
        IN  /\ DOMAIN redaction.mapping =
                   { matches[i].original : i \in 1..Len(matches) }
            /\ \A original \in DOMAIN redaction.mapping :
                   Occurs(original, redaction.input)

\* C24: two engines, each constructed by its own /redact request, never have
\* the same mapping id, so the mapping a request has saved stays in the store
\* under its id whatever the other requests save, and what a request gets
\* (redacted text and mapping) is what its own text gives on an engine of its
\* own.
C24_DistinctMappingIds ==
    /\ \A e, f \in 1..Len(engines) :
           e # f => engines[e].self.mapping_id # engines[f].self.mapping_id
    /\ \A e \in 1..Len(engines) :
           engines[e].saved =>
               /\ engines[e].self.mapping_id \in DOMAIN store
               /\ objs[store[engines[e].self.mapping_id].mapping] = engines[e].returned
    /\ \A e \in 1..Len(engines) :
           engines[e].calls = 1 =>
               LET own == RedactorEngine_init(engines[e].self.mode, engines[e].secret,
                                              engines[e].context,
                                              engines[e].self.mapping_id).self
                   alone == RedactorEngine_redact(own, engines[e].input, engines[e].stream)
               IN  /\ engines[e].text = alone.text
                   /\ engines[e].returned = alone.mapping

C24_Witness ==
    /\ Len(engines) = 2
    /\ engines[1].saved /\ engines[2].saved
    /\ engines[1].calls = 1 /\ engines[2].calls = 1
    /\ engines[1].input # engines[2].input
    /\ engines[1].returned # engines[2].returned
    /\ Cardinality(DOMAIN store) = 2

C26_SecretRequired ==
    /\ redaction.op = "init" =>
           /\ (redaction.raised = "ValueError")
                  = (redaction.mode = "deterministic" /\ redaction.secret = NoSecret)
           /\ redaction.raised \in {None, "ValueError"}
           /\ redaction.raised = "ValueError" => engines = << >>
           /\ redaction.raised = None => Len(engines) = 1
           /\ redaction.mode = "random" => redaction.raised = None
    /\ \A e \in 1..Len(engines) :
           engines[e].self.mode = "deterministic" =>
               /\ engines[e].secret # NoSecret
               /\ engines[e].self._deterministic_key # NoKey
    /\ redaction.op = "redact" /\ redaction.mode = "deterministic" =>
           redaction.secret # NoSecret

C26_Witness ==
    /\ redaction.op = "init"
    /\ redaction.mode = "deterministic"
    /\ redaction.secret = NoSecret
    /\ redaction.raised = "ValueError"
    /\ engines = << >>
    /\ uuids = 2

\* C27: the passes run in the order IPv6, IPv4, MAC; no match of a pass
\* covers a character that a replacement of an earlier pass has written; and
\* the text "::ffff:192.168.1.1" gives one mapping entry, the whole text.
C27_NoRematch ==
    redaction.op = "redact" =>
        LET matches == redaction.matches
            Rank(pattern_type) ==
                CHOOSE k \in 1..Len(PATTERNS) : PATTERNS[k].pattern_type = pattern_type
            mapped == <<":", ":", "f", "f", "f", "f", ":",
                        "1", "9", "2", ".", "1", "6", "8", ".", "1", ".", "1">>
        IN  /\ <<PATTERNS[1].pattern_type, PATTERNS[2].pattern_type,
                  PATTERNS[3].pattern_type>> = <<"ipv6", "ipv4", "mac">>
            /\ \A i, j \in 1..Len(matches) :
                   i < j => Rank(matches[i].pattern_type) <= Rank(matches[j].pattern_type)
            /\ \A i \in 1..Len(matches) : ~matches[i].of_emitted
            /\ redaction.first /\ redaction.input = mapped =>
                   DOMAIN redaction.mapping = {mapped}

\* C28: what the MAC pass matches is six pairs of hex digits joined by one
\* separator, ":" everywhere or "-" everywhere.
C28_UniformSeparator ==
    redaction.op = "redact" =>
        \A i \in 1..Len(redaction.matches) :
            redaction.matches[i].pattern_type = "mac" =>
                LET original == redaction.matches[i].original
                    separators == { original[3 * k] : k \in 1..5 }
                IN  /\ Len(original) = 17
                    /\ \A k \in 1..17 :
                           IF k % 3 = 0 THEN original[k] \in {":", "-"}
                           ELSE original[k] \in HexDigits
                    /\ separators = {":"} \/ separators = {"-"}

\* C29: what check(key) leaves of the key's timestamps (before it adds its
\* own) is every admitted timestamp not older than now - window: a timestamp
\* exactly one window old is kept and still counts.
C29_BoundaryKept ==
    last_check.key # None /\ last_check.key \in DOMAIN entries =>
        LET key == last_check.key
            boundary == last_check.at - rate_limit_window_seconds
            earlier == IF last_check.allowed
                       THEN SubSeq(admitted[key], 1, Len(admitted[key]) - 1)
                       ELSE admitted[key]
            left == IF last_check.allowed
                    THEN SubSeq(entries[key], 1, Len(entries[key]) - 1)
                    ELSE entries[key]
        IN  left = SelectSeq(earlier, LAMBDA stamp : stamp >= boundary)

\* C30: each key's timestamps are in non-decreasing order from front to
\* back, and after a check none of the key's timestamps is at or before the
\* boundary of that check: the trim of the front has removed all the expired.
C30_TimestampsOrdered ==
    /\ \A key \in DOMAIN entries :
           \A i, j \in 1..Len(entries[key]) :
               i < j => entries[key][i] <= entries[key][j]
    /\ last_check.key # None /\ last_check.key \in DOMAIN entries =>
           \A i \in 1..Len(entries[last_check.key]) :
               entries[last_check.key][i] > last_check.at - rate_limit_window_seconds

C30_Witness ==
    /\ last_check.key # None /\ last_check.key \in DOMAIN entries
    /\ last_check.allowed
    /\ Len(entries[last_check.key]) >= 2
    /\ entries[last_check.key][1] < entries[last_check.key][2]
    /\ Len(entries[last_check.key]) < Len(admitted[last_check.key])
    /\ \E other \in DOMAIN entries : other # last_check.key /\ entries[other] # << >>

\* C31: a check of one key leaves the sequence of every other key as it was,
\* and whether it is admitted is decided by the key's own sequence and the
\* clock alone: it is admitted exactly when fewer than rate_limit_requests of
\* the key's own timestamps are inside the window.
C31_KeysIsolated ==
    [][checks' # checks =>
          LET key == last_check'.key
              own == IF key \in DOMAIN entries THEN entries[key] ELSE << >>
              inside == { i \in 1..Len(own) :
                            own[i] > now - rate_limit_window_seconds }
          IN  /\ \A k \in DOMAIN entries \ {key} :
                     k \in DOMAIN entries' /\ entries'[k] = entries[k]
              /\ DOMAIN entries' = DOMAIN entries \cup {key}
              /\ last_check'.allowed = (Cardinality(inside) < rate_limit_requests)
              /\ \A k \in Keys \ {key} : admitted'[k] = admitted[k]]_vars

C31_Witness ==
    /\ last_check.key = "k1"
    /\ last_check.at = now
    /\ last_check.allowed
    /\ "unknown" \in DOMAIN entries
    /\ Len(entries["unknown"]) = rate_limit_requests
    /\ \A i \in 1..Len(entries["unknown"]) :
           entries["unknown"][i] > now - rate_limit_window_seconds

\* C32: a get(id) that finds the entry of id past its expiry instant answers
\* None and takes the entry out of the table, leaving the other entries as
\* they are, so that a delete(id) that follows answers False; a get(id) that
\* finds a live entry answers with its mapping and leaves the table as it is,
\* and so does a get(id) that finds no entry.
C32_GetEvictsExpired ==
    [][\A id \in MappingIds : StoreGet(id) =>
          IF id \in DOMAIN store
                /\ store[id].expire_at # NoNumber
                /\ store[id].expire_at < now
          THEN /\ ~last'.found
               /\ DOMAIN store' = DOMAIN store \ {id}
               /\ \A other \in DOMAIN store' : store'[other] = store[other]
               /\ ~delete(store', id).result
          ELSE /\ store' = store
               /\ last'.found = (id \in DOMAIN store)
               /\ last'.found => last'.mapping = objs[store[id].mapping]]_vars

\* The get of an id finds nothing although the id was saved and never deleted,
\* and the entry is gone while another entry saved at the same instant, which
\* a sweep would have taken along, is still in the table, expired.
C32_Witness ==
    /\ last.op = "get"
    /\ ~last.found
    /\ last.id \in DOMAIN saves
    /\ last.id \notin DOMAIN store
    /\ \E other \in DOMAIN store \ {last.id} :
          /\ other \in DOMAIN saves
          /\ saves[other].at = saves[last.id].at
          /\ store[other].expire_at # NoNumber
          /\ store[other].expire_at < now

\* C33: on the in-memory store at most one coroutine is between acquiring
\* and releasing the lock, whichever of save, get, delete, count, the sweep
\* and the clear of shutdown it runs, and it is the one the lock records;
\* until that coroutine writes, the table is the one it found on entering:
\* the entry a get has looked up is still the entry of its id when the get
\* tests the expiry and evicts, and the keys a sweep has collected are still
\* the expired keys of the table when the sweep removes them.
C33_Inside == { c \in Callers : callers[c].pc \in {"locked", "looked", "collected", "release"} }

C33_MutualExclusion ==
    /\ Cardinality(C33_Inside) <= 1
    /\ \A c \in C33_Inside : _lock = c
    /\ \A c \in Callers :
          /\ callers[c].pc \in {"locked", "looked", "collected"} => store = callers[c].seen
          /\ callers[c].pc = "looked" =>
                 /\ callers[c].id \in DOMAIN store
                 /\ store[callers[c].id] = callers[c].value
          /\ callers[c].pc = "collected" =>
                 /\ callers[c].expired \subseteq DOMAIN store
                 /\ \A key \in callers[c].expired : Evictable(store[key].expire_at)

\* A get is inside the lock: it has looked up an entry that is past its
\* expiry and is about to evict it, while another coroutine that would write
\* to the table waits at the lock.
C33_Witness ==
    \E c, other \in Callers :
        /\ At(c, "get", "looked")
        /\ Expired(callers[c].value.expire_at)
        /\ callers[other].pc = "acquire"
        /\ callers[other].op \in {"sweep", "save", "delete", "clear"}
        /\ _lock = c

\* C34: a stage whose shared state is absent passes the request on and hands
\* back what comes back.  Without settings the timeout stage sets no deadline,
\* answers no 504 and calls no on-timeout callback however long the chain
\* takes, and the payload-size stage reads neither the Content-Length header
\* nor the body and answers no 413; without a limiter the rate-limit stage
\* makes no check and answers no 429.  Every stage entered is followed by the
\* next one, and without settings the one response sent is the response of
\* the chain below as it came back, or the 500 of the server-error layer for
\* an exception of the chain below.
C34_AbsentStatePassesThrough ==
    \A r \in Reqs :
        /\ ~app.settings =>
              /\ req[r].deadline = NoNumber
              /\ req[r].on_timeout = 0
              /\ ~req[r].response_sent
              /\ req[r].content_length = NoNumber
              /\ req[r].state_body = NoBody
              /\ req[r].body_reads = 0
              /\ Statuses(r) \cap {413, 504} = {}
              /\ "payload" \in Stages(r) =>
                     req[r].pc = "rate_limit" \/ "rate_limit" \in Stages(r)
              /\ req[r].pc = "closed" =>
                     req[r].sent = << IF req[r].exc = None THEN req[r].response
                                      ELSE Json(500, "Internal server error") >>
        /\ ~app.rate_limiter =>
              /\ checks = 0
              /\ entries = << >>
              /\ req[r].allowed = None
              /\ 429 \notin Statuses(r)
              /\ "rate_limit" \in Stages(r) =>
                     req[r].pc = "logging" \/ "logging" \in Stages(r)

\* With neither settings nor limiter a request has gone through all the
\* stages to the handler and has been answered 200, having taken as long as
\* the timeout that settings would have configured.
C34_Witness ==
    \E r \in Reqs :
        /\ ~app.settings
        /\ ~app.rate_limiter
        /\ req[r].pc = "closed"
        /\ req[r].trace = <<"timeout", "payload", "rate_limit", "logging", "context", "handler">>
        /\ Statuses(r) = {200}
        /\ Len(req[r].records) = 1
        /\ req[r].records[1].processing_time >= request_timeout_seconds

\* C35: the key the rate-limit stage checks is the first comma-separated
\* entry of the X-Forwarded-For header, without the blanks around it, when
\* the header is there and not empty (an entry of blanks only, or nothing
\* before the first comma, gives the empty key), else the peer address,
\* else "unknown"; the answer depends on the window of that key alone, so
\* that any request with the same key, whatever its header and peer address,
\* would be given the same answer at that instant.
C35_Key(forwarded, client) ==
    IF forwarded # << >>
    THEN LET stop == CHOOSE i \in 0..Len(forwarded) :
                        /\ i = Len(forwarded) \/ forwarded[i + 1] = ","
                        /\ \A j \in 1..i : forwarded[j] # ","
             entry == SubSeq(forwarded, 1, stop)
             trimmed == CHOOSE t \in { SubSeq(entry, a, b) :
                                         a \in 1..(Len(entry) + 1), b \in 0..Len(entry) } :
                           /\ \E a \in 1..(Len(entry) + 1), b \in 0..Len(entry) :
                                 /\ t = SubSeq(entry, a, b)
                                 /\ \A j \in 1..(a - 1) : entry[j] = " "
                                 /\ \A j \in (b + 1)..Len(entry) : entry[j] = " "
                           /\ t = << >> \/ (t[1] # " " /\ t[Len(t)] # " ")
         IN  str(trimmed)
    ELSE IF client # None THEN client
    ELSE "unknown"

C35_KeyOfRequest ==
    [][\A r \in Reqs :
          (req[r].pc = "rate_limit" /\ req'[r].pc # "rate_limit") =>
              LET key    == C35_Key(req'[r].forwarded, req'[r].client)
                  own    == IF key \in DOMAIN entries THEN entries[key] ELSE << >>
                  inside == { i \in 1..Len(own) : own[i] > now - rate_limit_window_seconds }
              IN  /\ last_check'.key = key
                  /\ last_check'.at = now
                  /\ (req'[r].allowed = "yes") = last_check'.allowed
                  /\ last_check'.allowed = (Cardinality(inside) < rate_limit_requests)
                  /\ \A peer \in ClientPeers :
                        C35_Key(peer.forwarded, peer.client) = key =>
                            check(_client_identifier(peer.forwarded, peer.client), now).allowed
                                = last_check'.allowed]_vars

\* A request from peer k2 whose header names k1 after a blank is answered 429:
\* the window of k1 was filled by the requests of other clients.
C35_Witness ==
    \E r \in Reqs :
        /\ req[r].client = "k2"
        /\ Len(req[r].forwarded) >= 2
        /\ req[r].forwarded[1] = " "
        /\ req[r].forwarded[2] = "k1"
        /\ last_check.key = "k1"
        /\ req[r].allowed = "no"
        /\ Statuses(r) = {429}

\* C36: the hint of a denial is enough.  After check(key) is denied at time
\* t with retry_after r, a check(key) at any time from t + r on is admitted,
\* as long as no check of that key has been admitted since: right after the
\* denial every such later check would be admitted, and a step that is not
\* an admitted check of the key never turns a later check of the key that
\* would be admitted into one that would be denied.
C36_Times == 0..(MaxTime + rate_limit_window_seconds)

C36_AfterDenial ==
    (last_check.key # None /\ ~last_check.allowed) =>
        /\ last_check.retry_after > 0
        /\ \A t \in C36_Times :
              (t >= now /\ t >= last_check.at + last_check.retry_after) =>
                  check(last_check.key, t).allowed

C36_WouldAdmit(key, t) == check(key, t).allowed

C36_RetryAfterSufficient ==
    [][/\ C36_AfterDenial'
       /\ \A key \in Keys : \A t \in C36_Times :
             (/\ t >= now'
              /\ C36_WouldAdmit(key, t)
              /\ ~(checks' # checks /\ last_check'.key = key /\ last_check'.allowed)) =>
                 C36_WouldAdmit(key, t)']_vars

\* A check of k1 was denied with a hint, nothing has been checked since, and
\* the time the hint names has come: the window is still full of the two
\* admissions, the older of which is now exactly one window old.
C36_Witness ==
    /\ last_check.key = "k1"
    /\ ~last_check.allowed
    /\ last_check.retry_after > 0
    /\ now = last_check.at + last_check.retry_after
    /\ Len(entries["k1"]) = rate_limit_requests
    /\ entries["k1"][1] = now - rate_limit_window_seconds
    /\ check("k1", now).allowed

\* C37: get, delete and count agree at every instant on the ids that are
\* live: delete(id) answers True exactly when a get(id) at the same instant
\* would return a mapping, and count() is the number of ids of which a get
\* at the same instant would return a mapping.
C37_Live(id) == get(objs, store, id).result # NoDict

C37_LivenessAgrees ==
    [][/\ \A id \in MappingIds :
             StoreDelete(id) => last'.found = C37_Live(id)
       /\ StoreCount =>
             last'.number = Cardinality({ id \in MappingIds : C37_Live(id) })]_vars

\* C38: a request uses up quota exactly when the rate-limit stage admits it.
\* The stage that admits appends the time of the check to the window of the
\* request's key; the stage that denies (429) appends nothing and only trims
\* the front; a request answered 413 was never checked; and no other step of
\* a request, whether it ends in 200, 400, 500 or 504, adds a timestamp or
\* takes one away: an admission is not refunded.
C38_Stage(r) == req[r].pc = "rate_limit" /\ req[r].allowed = None /\ req'[r].allowed # None

C38_Answered ==
    \A r \in Reqs :
        /\ (413 \in Statuses(r) \/ req[r].response.status_code = 413) =>
              req[r].allowed = None
        /\ (429 \in Statuses(r) \/ req[r].response.status_code = 429) =>
              req[r].allowed = "no"
        /\ req[r].allowed = "no" => req[r].response.status_code = 429

C38_QuotaOnAdmission ==
    [][/\ C38_Answered'
       /\ \A r \in Reqs :
             LET key == last_check'.key
                 old == IF key \in DOMAIN entries THEN entries[key] ELSE << >>
             IN  /\ (C38_Stage(r) /\ req'[r].allowed = "yes") =>
                       /\ admitted'[key] = Append(admitted[key], now)
                       /\ \E n \in 0..Len(old) :
                             entries'[key] = Append(SubSeq(old, n + 1, Len(old)), now)
                 /\ (C38_Stage(r) /\ req'[r].allowed = "no") =>
                       /\ admitted' = admitted
                       /\ \E n \in 0..Len(old) :
                             entries'[key] = SubSeq(old, n + 1, Len(old))
                 /\ (req'[r] # req[r] /\ ~C38_Stage(r)) =>
                       /\ entries' = entries
                       /\ admitted' = admitted]_vars

\* A request was admitted by the only check made, its handler failed and it
\* was answered 500: its timestamp is still the window of its key.
C38_Witness ==
    \E r \in Reqs :
        /\ req[r].pc = "closed"
        /\ req[r].allowed = "yes"
        /\ Statuses(r) = {500}
        /\ checks = 1
        /\ last_check.key \in DOMAIN entries
        /\ entries[last_check.key] = << last_check.at >>
        /\ admitted[last_check.key] = << last_check.at >>

\* C39: a 504 and a call of the on-timeout callback happen for a request only
\* once its deadline has passed; an exception of the chain below that reaches
\* the timeout stage before the deadline, a timeout error of a store call
\* included, is answered 500 by the server-error layer.
C39_TimeoutOnlyAfterDeadline ==
    \A r \in Reqs :
        /\ (req[r].on_timeout > 0 \/ 504 \in Statuses(r)) =>
              (req[r].deadline # NoNumber /\ now >= req[r].deadline)
        /\ (req[r].pc = "closed" /\ req[r].exc # None /\ now < req[r].deadline) =>
              Statuses(r) = {500}

====
